---- MODULE Spec2Model ----
(***************************************************************************)
(* MindWise backend: the job-application store (routers/jobs.py,           *)
(* routers/notes.py, models/*.py), the resume extractor                    *)
(* (services/resume_extractor.py), the analysis client                     *)
(* (services/ai_agent.py), the analyze-job handler (routers/ai.py) and     *)
(* registration (routers/auth.py).                                         *)
(***************************************************************************)
EXTENDS Integers, Sequences, FiniteSets, TLC

\* ------------------------------------------------------------------ bounds
MaxJobs == 2        \* job ids ever handed out by the id sequence
MaxNotes == 2       \* note ids ever handed out by the id sequence
MaxClock == 1       \* largest value of the database clock
MaxTmp == 1         \* temporary files already on disk when a call starts
MaxLinkLen == 3     \* pieces of a resume link
MaxPages == 2       \* pages of a downloaded document
MaxAiLen == 2       \* pieces of a generated response text
MaxTextLen == 4     \* runs of a text handed to _clean_text
MaxNodes == 2       \* elements directly below the body of a page
MaxProcs == 2       \* requests handled at the same time
MaxUsers == 2       \* user ids ever handed out by the id sequence
MaxRaceJobs == 1    \* job ids handed out while requests are in flight
MaxRaceNotes == 1   \* note ids handed out while requests are in flight

\* ------------------------------------------------------------- data values
None == "<None>"    \* Python None / SQL NULL

Users == {1, 2}     \* authenticated principals (ids of users)
NoUser == 0         \* a handler that takes no current_user

Min(a, b) == IF a < b THEN a ELSE b
Max(a, b) == IF a > b THEN a ELSE b

\* Text columns of job_applications declared nullable=False (user_id, the other
\* one, is an integer the handlers always set).
NotNullColumns ==
  {"company_name", "job_title", "job_description", "resume_drive_link"}

\* Fields of the JobUpdate schema.
JobUpdateFields ==
  {"company_name", "job_title", "job_description", "user_notes", "status"}

\* Columns of job_applications.
JobColumns ==
  {"id", "user_id", "company_name", "job_title", "job_description",
   "resume_drive_link", "user_notes", "ai_analysis", "status", "created_at"}

VARIABLES
  jobs,        \* table job_applications: id -> row
  notes,       \* table notes: set of rows
  nextJobId,   \* id sequence of job_applications
  nextNoteId,  \* id sequence of notes
  clock,       \* database clock, func.now()
  tmpfiles,    \* temporary files present on disk
  resp,        \* the request just handled and the response it got
  users,       \* table users: set of rows
  nextUserId,  \* id sequence of users
  inflight     \* requests being handled: process -> its handler's position

vars == <<jobs, notes, nextJobId, nextNoteId, clock, tmpfiles, resp,
          users, nextUserId, inflight>>

store == <<jobs, notes, nextJobId, nextNoteId, clock>>

\* What the handlers of the job, note and analysis routes leave alone when
\* they run from start to end without another request in between.
background == <<users, nextUserId, inflight>>

\* ------------------------------------------------------- persistence layer
\* Row of job_applications with the given id, as the request's session sees it.
JobIds == DOMAIN jobs

\* SQLAlchemy flush of one job_applications row: the NOT NULL columns.
RowAccepted(row) == \A c \in NotNullColumns : row[c] # None

\* Response-model validation of a row as JobResponse: status is a required str.
JobResponseValid(row) == row.status # None

\* All orderings ORDER BY created_at DESC may return for the rows S
\* (rows with equal created_at come in an order the database chooses).
RECURSIVE OrderByCreatedAtDesc(_)
OrderByCreatedAtDesc(S) ==
  IF S = {} THEN {<<>>}
  ELSE LET newest == {r \in S : \A q \in S : q.created_at <= r.created_at}
       IN UNION {{<<r>> \o rest : rest \in OrderByCreatedAtDesc(S \ {r})} : r \in newest}

\* .offset(offset).limit(limit) of an ordered result.
OffsetLimit(ord, offset, limit) ==
  SubSeq(ord, offset + 1, Min(offset + limit, Len(ord)))

\* Python truthiness of an Optional[str].
Truthy(s) == s # None /\ s # ""

\* What a request did besides answering: resume downloads requested, prompts
\* sent to the generation API, whether an AIAnalysisResult was built, and the
\* ids of the notes its commit deleted by cascade.
NoIO == [requests |-> <<>>, outbound |-> <<>>, constructed |-> FALSE, cascaded |-> {}]

Response(op, user, args, code, body) ==
  [op |-> op, user |-> user, args |-> args, code |-> code, body |-> body, io |-> NoIO]

NotFound(op, user, args, detail) == Response(op, user, args, 404, detail)

\* ------------------------------------------------------------ jobs router
\* Variant: the listing query is not scoped to the user.
ListQueryAllUsers(u, status) ==
  {jobs[i] : i \in {j \in JobIds : Truthy(status) => jobs[j].status = status}}

\* The rows list_jobs's query selects for user u and the status parameter.
ListQuery(u, status) ==
  {jobs[i] : i \in {j \in JobIds :
      /\ jobs[j].user_id = u
      /\ Truthy(status) => jobs[j].status = status}}

list_jobs(u, page, page_size, status) ==
  LET matching == ListQuery(u, status)
      total == Cardinality(matching)
      offset == (page - 1) * page_size
      args == [page |-> page, page_size |-> page_size, status |-> status]
  IN /\ \E ord \in OrderByCreatedAtDesc(matching) :
          LET items == OffsetLimit(ord, offset, page_size)
          IN resp' = IF \A k \in 1..Len(items) : JobResponseValid(items[k])
                     THEN Response("list_jobs", u, args, 200,
                            [jobs |-> items, total |-> total,
                             page |-> page, page_size |-> page_size])
                     ELSE Response("list_jobs", u, args, 500, "Failed to list jobs")
     /\ UNCHANGED <<store, tmpfiles, background>>

\* Variant: the by-id query filters on the id alone.
OwnedJobAnyUser(u, job_id) == job_id \in JobIds

\* The row the by-id handlers select: id and owner both match.
OwnedJob(u, job_id) == job_id \in JobIds /\ jobs[job_id].user_id = u

get_job(u, job_id) ==
  /\ resp' = IF ~OwnedJob(u, job_id)
             THEN NotFound("get_job", u, [job_id |-> job_id], "Job application not found")
             ELSE IF JobResponseValid(jobs[job_id])
             THEN Response("get_job", u, [job_id |-> job_id], 200, jobs[job_id])
             ELSE Response("get_job", u, [job_id |-> job_id], 500, "ResponseValidationError")
  /\ UNCHANGED <<store, tmpfiles, background>>

\* Variant: a schema that keeps every field of the request body.
JobUpdateAnyField(body) == body

\* JobUpdate as parsed from a request body: the fields of the schema that the
\* body sets; pydantic drops the others.
JobUpdate(body) == [c \in DOMAIN body \cap JobUpdateFields |-> body[c]]

\* Variant: model_dump() without exclude_unset, absent fields arriving as None.
ApplyUpdateUnsetToo(row, update_data) ==
  [c \in DOMAIN row |->
     IF c \in DOMAIN update_data THEN update_data[c]
     ELSE IF c \in {"user_notes", "status"} THEN None ELSE row[c]]

\* setattr(job, field, value) for every item of model_dump(exclude_unset=True).
ApplyUpdate(row, update_data) ==
  [c \in DOMAIN row |-> IF c \in DOMAIN update_data THEN update_data[c] ELSE row[c]]

update_job(u, job_id, job_update) ==
  LET args == [job_id |-> job_id, job_update |-> job_update]
  IN IF ~OwnedJob(u, job_id)
     THEN /\ resp' = NotFound("update_job", u, args, "Job application not found")
          /\ UNCHANGED <<store, tmpfiles, background>>
     ELSE LET row == ApplyUpdate(jobs[job_id], job_update)
          IN IF ~RowAccepted(row)
             THEN \* db.commit() raises IntegrityError; the session is discarded
                  /\ resp' = Response("update_job", u, args, 500, "IntegrityError")
                  /\ UNCHANGED <<store, tmpfiles, background>>
             ELSE /\ jobs' = [jobs EXCEPT ![job_id] = row]
                  /\ resp' = IF JobResponseValid(row)
                             THEN Response("update_job", u, args, 200, row)
                             ELSE Response("update_job", u, args, 500, "ResponseValidationError")
                  /\ UNCHANGED <<notes, nextJobId, nextNoteId, clock, tmpfiles, background>>

\* Variant: the relationship carries no delete cascade.
CascadeNothing(job_id) == notes

\* cascade="all, delete-orphan" on JobApplication.reference_notes.
CascadeNotes(job_id) == {n \in notes : n.job_id # job_id}

delete_job(u, job_id) ==
  LET args == [job_id |-> job_id]
  IN IF ~OwnedJob(u, job_id)
     THEN /\ resp' = NotFound("delete_job", u, args, "Job application not found")
          /\ UNCHANGED <<store, tmpfiles, background>>
     ELSE /\ jobs' = [i \in JobIds \ {job_id} |-> jobs[i]]
          /\ notes' = CascadeNotes(job_id)
          /\ resp' = [Response("delete_job", u, args, 200,
                               "Job application deleted successfully")
                      EXCEPT !.io.cascaded = {n.id : n \in notes \ CascadeNotes(job_id)}]
          /\ UNCHANGED <<nextJobId, nextNoteId, clock, tmpfiles, background>>

\* ----------------------------------------------------------- notes router
create_note(job_id, content, t) ==
  LET args == [job_id |-> job_id, content |-> content]
  IN IF job_id \notin JobIds
     THEN /\ resp' = NotFound("create_note", NoUser, args, "Job application not found")
          /\ UNCHANGED <<store, tmpfiles, background>>
     ELSE LET note == [id |-> nextNoteId, job_id |-> job_id,
                       content |-> content, created_at |-> t]
          IN /\ notes' = notes \cup {note}
             /\ nextNoteId' = nextNoteId + 1
             /\ clock' = t
             /\ resp' = Response("create_note", NoUser, args, 201, note)
             /\ UNCHANGED <<jobs, nextJobId, tmpfiles, background>>

\* Variant: the notes query has no filter.
NotesOfAnyJob(job_id) == notes

\* db.query(Note).filter(Note.job_id == job_id)
NotesOf(job_id) == {n \in notes : n.job_id = job_id}

get_job_notes(job_id) ==
  LET args == [job_id |-> job_id]
  IN /\ IF job_id \notin JobIds
        THEN resp' = NotFound("get_job_notes", NoUser, args, "Job application not found")
        ELSE \E ord \in OrderByCreatedAtDesc(NotesOf(job_id)) :
               resp' = Response("get_job_notes", NoUser, args, 200,
                                [notes |-> ord, total |-> Len(ord)])
     /\ UNCHANGED <<store, tmpfiles, background>>

delete_note(note_id) ==
  LET args == [note_id |-> note_id]
      found == {n \in notes : n.id = note_id}
  IN IF found = {}
     THEN /\ resp' = NotFound("delete_note", NoUser, args, "Note not found")
          /\ UNCHANGED <<store, tmpfiles, background>>
     ELSE /\ notes' = notes \ found
          /\ resp' = Response("delete_note", NoUser, args, 200, "Note deleted successfully")
          /\ UNCHANGED <<jobs, nextJobId, nextNoteId, clock, tmpfiles, background>>

\* --------------------------------------------------------------- text values
\* A text is a sequence of runs of characters: a run of n blanks (c = "ws"),
\* of n newlines (c = "nl") or of n non-whitespace characters of content c.
Ws(n) == [c |-> "ws", n |-> n]
Nl == [c |-> "nl", n |-> 1]
Run(c, n) == [c |-> c, n |-> n]
Space == {"ws", "nl"}

RECURSIVE TextLen(_)
TextLen(text) == IF text = <<>> THEN 0 ELSE Head(text).n + TextLen(Tail(text))

\* str.strip(): drop leading and trailing whitespace.
RECURSIVE LStrip(_)
LStrip(text) ==
  IF text # <<>> /\ Head(text).c \in Space THEN LStrip(Tail(text)) ELSE text

RECURSIVE RStrip(_)
RStrip(text) ==
  IF text # <<>> /\ text[Len(text)].c \in Space
  THEN RStrip(SubSeq(text, 1, Len(text) - 1)) ELSE text

Strip(text) == RStrip(LStrip(text))

\* sep.join(parts)
RECURSIVE Join(_, _)
Join(sep, parts) ==
  IF parts = <<>> THEN <<>>
  ELSE IF Len(parts) = 1 THEN parts[1]
  ELSE parts[1] \o sep \o Join(sep, Tail(parts))

\* The string a sequence of runs spells, adjacent runs of one kind merged.
RECURSIVE Canon(_)
Canon(text) ==
  IF text = <<>> THEN <<>>
  ELSE LET rest == Canon(Tail(text))
           h == Head(text)
       IN IF h.n = 0 THEN rest
          ELSE IF rest # <<>> /\ rest[1].c = h.c
          THEN <<[c |-> h.c, n |-> h.n + rest[1].n]>> \o Tail(rest)
          ELSE <<h>> \o rest

\* text.split('\n'): the lines of a text, empty ones included.
RECURSIVE Split(_)
Split(text) ==
  IF text = <<>> THEN << <<>> >>
  ELSE LET h == Head(text)
       IN IF h.c = "nl"
          THEN << <<>> >> \o
               Split(IF h.n = 1 THEN Tail(text)
                     ELSE <<[c |-> "nl", n |-> h.n - 1]>> \o Tail(text))
          ELSE LET rest == Split(Tail(text))
               IN << <<h>> \o rest[1] >> \o Tail(rest)

\* ---------------------------------------------------------- resume extractor
MinResumeLen == 50

ValueError(msg) == [type |-> "ValueError", msg |-> msg]
OSError(msg) == [type |-> "OSError", msg |-> msg]

\* Link pieces. Every piece but the id pieces starts with a character outside
\* [a-zA-Z0-9_-], so a run of id characters never crosses into one.
IdPieces == {"1aB_-9", "Zz0"}
LinkPieces == {"/file/d/", "?id=", "&id=", "#id=", "/view"} \cup IdPieces

\* ([a-zA-Z0-9_-]+) at position i: the longest run of id pieces from i on.
RECURSIVE IdRun(_, _)
IdRun(link, i) ==
  IF i <= Len(link) /\ link[i] \in IdPieces
  THEN <<link[i]>> \o IdRun(link, i + 1) ELSE <<>>

\* Variant: an id= marker is accepted whatever character precedes it.
SearchIdLoose(literals, link) ==
  LET hits == {i \in 1..Len(link) :
                 link[i] \in literals \cup {"#id="} /\ IdRun(link, i + 1) # <<>>}
  IN IF hits = {} THEN <<>>
     ELSE IdRun(link, (CHOOSE i \in hits : \A j \in hits : i <= j) + 1)

\* re.search(literal + "([a-zA-Z0-9_-]+)", link).group(1), or <<>> for no match.
SearchId(literals, link) ==
  LET hits == {i \in 1..Len(link) : link[i] \in literals /\ IdRun(link, i + 1) # <<>>}
  IN IF hits = {} THEN <<>>
     ELSE IdRun(link, (CHOOSE i \in hits : \A j \in hits : i <= j) + 1)

_get_download_url(drive_link) ==
  LET m1 == SearchId({"/file/d/"}, drive_link)
      m2 == SearchId({"?id=", "&id="}, drive_link)
      file_id == IF m1 # <<>> THEN m1 ELSE m2
  IN IF file_id = <<>>
     THEN [ok |-> FALSE,
           error |-> ValueError(<<"Invalid Google Drive link. Could not extract file ID.">>)]
     ELSE [ok |-> TRUE, url |-> [file_id |-> file_id, confirm |-> None]]

\* Content-Type headers, and the two substring tests made on content_type.lower().
ContentTypes ==
  {"application/pdf", "Application/PDF", "text/html; charset=utf-8",
   "application/octet-stream", ""}
Lower(content_type) ==
  IF content_type = "Application/PDF" THEN "application/pdf" ELSE content_type
ContainsPdf(s) == s = "application/pdf"
ContainsTextHtml(s) == s = "text/html; charset=utf-8"

\* Bodies of an HTML answer, and re.search(r'confirm=([0-9A-Za-z_-]+)', content).
HtmlBodies == {"<html>Sign in</html>", "<a href='/uc?export=download&confirm=t0k3n'>"}
\* Variant: every page counts as a confirmation page.
ConfirmMatchAny(content) == "t0k3n"

ConfirmMatch(content) ==
  IF content = "<a href='/uc?export=download&confirm=t0k3n'>" THEN "t0k3n" ELSE None

\* Fresh name chosen by tempfile.NamedTemporaryFile.
FreshTmp(files) == CHOOSE f \in 0..Cardinality(files) : f \notin files

\* _download_pdf against the remote answers env.r1, env.r2 and the local
\* outcomes env.tmp (creating the file) and env.stream (iter_content / write).
_download_pdf(download_url, env, files) ==
  LET first == <<download_url>>
      failed(sent, fs) ==
        [ok |-> FALSE, requests |-> sent, files |-> fs, created |-> fs \ files,
         error |-> ValueError(<<"Failed to download resume from Google Drive: ">>)]
      lower == Lower(env.r1.content_type)
      token == ConfirmMatch(env.r1.text)
      again == ~ContainsPdf(lower) /\ ContainsTextHtml(lower) /\ token # None
      url2 == [download_url EXCEPT !.confirm = token]
      reqs == IF again THEN first \o <<url2>> ELSE first
      path == FreshTmp(files)
      made == files \cup {path}
  IN IF env.r1.error # "none" THEN failed(first, files)
     ELSE IF again /\ env.r2.error # "none" THEN failed(reqs, files)
     ELSE IF env.tmp # "ok"
     THEN [ok |-> FALSE, requests |-> reqs, files |-> files, created |-> {},
           error |-> OSError(<<"No space left on device">>)]
     ELSE IF env.stream = "RequestException" THEN failed(reqs, made)
     ELSE IF env.stream = "OSError"
     THEN [ok |-> FALSE, requests |-> reqs, files |-> made, created |-> {path},
           error |-> OSError(<<"No space left on device">>)]
     ELSE [ok |-> TRUE, requests |-> reqs, files |-> made, created |-> {path},
           path |-> path]

\* _extract_text_from_pdf of the document written to the temporary file.
_extract_text_from_pdf(doc) ==
  IF doc.corrupt
  THEN [ok |-> FALSE, error |-> ValueError(<<"Failed to extract text from PDF: ">>)]
  ELSE LET keep == SelectSeq(doc.pages, LAMBDA pg : ~pg.none /\ pg.text # <<>>)
           text_parts == [k \in 1..Len(keep) |-> keep[k].text]
       IN [ok |-> TRUE, text |-> Strip(Join(<<Ws(2)>>, text_parts))]

\* Variant: the threshold is off by one.
TooShortOffByOne(resume_text) ==
  resume_text = <<>> \/ TextLen(Strip(resume_text)) < MinResumeLen - 1

\* The length test of extract on the text _extract_text_from_pdf returned.
TooShort(resume_text) ==
  resume_text = <<>> \/ TextLen(Strip(resume_text)) < MinResumeLen

\* ResumeExtractor.extract: result, requests issued, temporary files created
\* and the temporary files on disk when the call returns or raises.
extract(drive_link, env, files) ==
  LET wrap(e) == ValueError(<<"Failed to extract resume: ">> \o e.msg)
      u == _get_download_url(drive_link)
      d == _download_pdf(u.url, env, files)
      x == _extract_text_from_pdf(env.doc)
      removed == d.files \ {d.path}    \* the finally block
  IN IF ~u.ok
     THEN [ok |-> FALSE, error |-> wrap(u.error), requests |-> <<>>,
           created |-> {}, files |-> files]
     ELSE IF ~d.ok
     THEN [ok |-> FALSE, error |-> wrap(d.error), requests |-> d.requests,
           created |-> d.created, files |-> d.files]
     ELSE IF ~x.ok
     THEN [ok |-> FALSE, error |-> wrap(x.error), requests |-> d.requests,
           created |-> d.created, files |-> removed]
     ELSE IF TooShort(x.text)
     THEN [ok |-> FALSE, requests |-> d.requests, created |-> d.created, files |-> removed,
           error |-> wrap(ValueError(<<"Extracted resume text is too short or empty">>))]
     ELSE [ok |-> TRUE, text |-> x.text, requests |-> d.requests,
           created |-> d.created, files |-> removed]

\* -------------------------------------------------------------- job extractor
\* Variant: repeated lines are kept.
DropRepeatsNone(lines) == lines

\* The loop of _clean_text: a line is appended unless it equals the line
\* appended last.
RECURSIVE DropRepeats(_)
DropRepeats(lines) ==
  IF lines = <<>> THEN <<>>
  ELSE LET cleaned_lines == DropRepeats(SubSeq(lines, 1, Len(lines) - 1))
           line == lines[Len(lines)]
       IN IF cleaned_lines # <<>> /\ line = cleaned_lines[Len(cleaned_lines)]
          THEN cleaned_lines
          ELSE Append(cleaned_lines, line)

_clean_text(text) ==
  LET split == Split(text)
      stripped == [k \in 1..Len(split) |-> Strip(split[k])]
      lines == SelectSeq(stripped, LAMBDA line : line # <<>>)
  IN Join(<<Nl>>, DropRepeats(lines))

\* A parsed page (the soup) is a sequence of nodes: text nodes and elements
\* with a tag, the tokens of the class attribute, the id, role and
\* data-testid attributes, and child nodes.
Txt(s) == [node |-> "text", s |-> s]
Element(tag, class, id, role, testid, kids) ==
  [node |-> "tag", tag |-> tag, class |-> class, id |-> id, role |-> role,
   testid |-> testid, kids |-> kids]
El(tag, class, kids) == Element(tag, class, "", "", "", kids)

\* soup([...]) / element.decompose(): the elements removed before extraction.
Unwanted == {"script", "style", "nav", "header", "footer", "aside"}
RECURSIVE Decompose(_)
Decompose(nodes) ==
  IF nodes = <<>> THEN <<>>
  ELSE LET h == Head(nodes)
       IN (IF h.node = "text" THEN <<h>>
           ELSE IF h.tag \in Unwanted THEN <<>>
           ELSE <<[h EXCEPT !.kids = Decompose(h.kids)]>>) \o Decompose(Tail(nodes))

\* The elements below nodes, in document order.
RECURSIVE Elements(_)
Elements(nodes) ==
  IF nodes = <<>> THEN <<>>
  ELSE LET h == Head(nodes)
       IN (IF h.node = "tag" THEN <<h>> \o Elements(h.kids) ELSE <<>>)
          \o Elements(Tail(nodes))

\* The strings below nodes, in document order.
RECURSIVE Strings(_)
Strings(nodes) ==
  IF nodes = <<>> THEN <<>>
  ELSE LET h == Head(nodes)
       IN (IF h.node = "tag" THEN Strings(h.kids) ELSE <<h.s>>) \o Strings(Tail(nodes))

\* element.get_text(separator, strip=True): the stripped non-empty strings of
\* the element, joined by the separator.
get_text(element, separator) ==
  LET strs == Strings(element.kids)
      stripped == [k \in 1..Len(strs) |-> Strip(strs[k])]
  IN Canon(Join(separator, SelectSeq(stripped, LAMBDA s : s # <<>>)))

\* CSS selectors of the extractor.
Tag(v) == [kind |-> "tag", v |-> v]
ClassHas(v) == [kind |-> "class*=", v |-> v]
IdHas(v) == [kind |-> "id*=", v |-> v]
Class(v) == [kind |-> ".", v |-> v]
Id(v) == [kind |-> "#", v |-> v]
Role(v) == [kind |-> "role=", v |-> v]
TestId(v) == [kind |-> "data-testid=", v |-> v]

\* The selector needles an attribute value of the model contains.
SubstringsOf(value) ==
  {value} \cup
  (IF value = "job-description" THEN {"description"}
   ELSE IF value = "main-content" THEN {"content"}
   ELSE IF value = "job-content" THEN {"content"}
   ELSE IF value = "senior-job-title" THEN {"job-title"}
   ELSE IF value = "employer-info" THEN {"employer"}
   ELSE {})

Matches(selector, element) ==
  IF selector.kind = "tag" THEN element.tag = selector.v
  ELSE IF selector.kind = "class*="
  THEN \E k \in 1..Len(element.class) : selector.v \in SubstringsOf(element.class[k])
  ELSE IF selector.kind = "id*=" THEN element.id # "" /\ selector.v \in SubstringsOf(element.id)
  ELSE IF selector.kind = "." THEN \E k \in 1..Len(element.class) : element.class[k] = selector.v
  ELSE IF selector.kind = "#" THEN element.id = selector.v
  ELSE IF selector.kind = "role=" THEN element.role = selector.v
  ELSE element.testid = selector.v

\* soup.select_one(selector): the first matching element in document order,
\* as a sequence of one element, or <<>> for None.
select_one(selector, soup) ==
  LET hits == SelectSeq(Elements(soup), LAMBDA e : Matches(selector, e))
  IN IF hits = <<>> THEN <<>> ELSE <<hits[1]>>

TitleSelectors ==
  <<Tag("h1"), ClassHas("job-title"), ClassHas("jobTitle"), TestId("job-title"),
    Tag("title")>>
CompanySelectors ==
  <<ClassHas("company-name"), ClassHas("companyName"), ClassHas("employer"),
    TestId("company-name")>>
DescriptionSelectors ==
  <<ClassHas("job-description"), ClassHas("jobDescription"), ClassHas("job_description"),
    IdHas("job-description"), IdHas("jobDescription"), ClassHas("description"),
    ClassHas("job-details"), ClassHas("jobDetails"), ClassHas("job-content"),
    ClassHas("content"), Tag("article"), Tag("main"), Role("main"),
    Class("job-desc"), Id("job-desc"), Class("description"), Id("description")>>

TitleNotFound == <<Run("Job Title Not Found", 19)>>
CompanyNotFound == <<Run("Company Not Found", 17)>>

\* The loop shared by the title and the company extraction: the text of the
\* first selector whose first match has non-empty text, or <<>> when no
\* selector has one.
FirstNonEmpty(selectors, soup) ==
  LET good == {k \in 1..Len(selectors) :
                 /\ select_one(selectors[k], soup) # <<>>
                 /\ get_text(select_one(selectors[k], soup)[1], <<>>) # <<>>}
  IN IF good = {} THEN <<>>
     ELSE get_text(select_one(selectors[CHOOSE k \in good : \A j \in good : k <= j],
                              soup)[1], <<>>)

_extract_job_title(soup) ==
  LET found == FirstNonEmpty(TitleSelectors, soup)
      h1 == select_one(Tag("h1"), soup)      \* soup.find('h1')
  IN IF found # <<>> THEN found
     ELSE IF h1 # <<>> THEN get_text(h1[1], <<>>)
     ELSE TitleNotFound

_extract_company_name(soup) ==
  LET found == FirstNonEmpty(CompanySelectors, soup)
  IN IF found # <<>> THEN found ELSE CompanyNotFound

MinDescriptionLen == 100
MinBodyLen == 100
MinBlockLen == 500
MaxBlockLen == 20000

\* Variant: the bounds of a substantial block are inclusive.
SubstantialInclusive(text) == TextLen(text) >= MinBlockLen /\ TextLen(text) <= MaxBlockLen

\* len(text) > 500 and len(text) < 20000
Substantial(text) == TextLen(text) > MinBlockLen /\ TextLen(text) < MaxBlockLen

_extract_job_description(soup) ==
  LET text(e) == get_text(e, <<Nl>>)
      by_selector == {k \in 1..Len(DescriptionSelectors) :
                        /\ select_one(DescriptionSelectors[k], soup) # <<>>
                        /\ TextLen(text(select_one(DescriptionSelectors[k], soup)[1]))
                             > MinDescriptionLen}
      all_divs == SelectSeq(Elements(soup), LAMBDA e : e.tag \in {"div", "section"})
      blocks == {i \in 1..Len(all_divs) : Substantial(text(all_divs[i]))}
      body == select_one(Tag("body"), soup)  \* soup.find('body')
  IN IF by_selector # {}
     THEN _clean_text(text(select_one(
            DescriptionSelectors[CHOOSE k \in by_selector : \A j \in by_selector : k <= j],
            soup)[1]))
     ELSE IF blocks # {}
     THEN _clean_text(text(all_divs[CHOOSE i \in blocks : \A j \in blocks : i <= j]))
     ELSE IF body # <<>> /\ TextLen(text(body[1])) > MinBodyLen
     THEN _clean_text(text(body[1]))
     ELSE <<>>

\* JobExtractor.extract of the page the job URL answers with.
job_extract(page) ==
  LET soup == Decompose(page.nodes)
      job_title == _extract_job_title(soup)
      company_name == _extract_company_name(soup)
      job_description == _extract_job_description(soup)
  IN IF page.error # "none"
     THEN [ok |-> FALSE, error |-> ValueError(<<"Failed to fetch job posting: ">>)]
     ELSE IF job_description = <<>>
     THEN [ok |-> FALSE,
           error |-> ValueError(<<"Failed to extract job description: ",
                                  "Could not extract job description from the page">>)]
     ELSE [ok |-> TRUE, job_description |-> job_description,
           job_title |-> job_title, company_name |-> company_name]

\* ------------------------------------------------------------ analysis client
\* JSON values.
JStr(s) == [kind |-> "string", s |-> s]
JInt(v) == [kind |-> "int", v |-> v]
JNum(whole, frac) == [kind |-> "float", whole |-> whole, frac |-> frac]
JArr(items) == [kind |-> "array", items |-> items]
JObj(fields) == [kind |-> "object", fields |-> fields]

\* Pieces of a response text besides whitespace: one complete JSON document,
\* a markdown code fence, other prose.
JsonPiece(v) == [c |-> "json", n |-> 1, v |-> v]
Fence == [c |-> "~~~json", n |-> 7]
Prose == [c |-> "Here is the analysis:", n |-> 21]

\* Variant: a parser that picks the document out of a fenced or prefaced answer.
json_loads_lenient(s) ==
  LET docs == SelectSeq(s, LAMBDA piece : piece.c = "json")
  IN IF Len(docs) >= 1 THEN [ok |-> TRUE, value |-> docs[1].v] ELSE [ok |-> FALSE]

\* json.loads: one JSON document, whitespace around it allowed.
json_loads(s) ==
  LET core == Strip(s)
  IN IF Len(core) = 1 /\ core[1].c = "json"
     THEN [ok |-> TRUE, value |-> core[1].v]
     ELSE [ok |-> FALSE]

StrFields == {"job_summary"}
ListFields == {"required_skills", "resume_skills", "skill_gap", "preparation_tips"}
ResultFields == StrFields \cup ListFields \cup {"match_score"}

\* pydantic validation of one field of AIAnalysisResult.
IsStr(v) == v.kind = "string"
IsListOfStr(v) == v.kind = "array" /\ \A k \in 1..Len(v.items) : IsStr(v.items[k])
\* int(): the strings of the model that are integer literals.
IntOfStr(s) ==
  IF s = "85" THEN [ok |-> TRUE, v |-> 85]
  ELSE IF s = "101" THEN [ok |-> TRUE, v |-> 101]
  ELSE [ok |-> FALSE]

\* pydantic's (lax) validation of an int field: an int, a float without a
\* fractional part, or a string that is an integer literal.
CoerceInt(v) ==
  IF v.kind = "int" THEN [ok |-> TRUE, v |-> v.v]
  ELSE IF v.kind = "float" /\ v.frac = 0 THEN [ok |-> TRUE, v |-> v.whole]
  ELSE IF v.kind = "string" THEN IntOfStr(v.s)
  ELSE [ok |-> FALSE]

\* Variant: Field(...) without ge=0, le=100.
IsScoreAnyInt(v) == CoerceInt(v).ok

\* match_score: int = Field(..., ge=0, le=100)
IsScore(v) == CoerceInt(v).ok /\ CoerceInt(v).v >= 0 /\ CoerceInt(v).v <= 100

\* AIAnalysisResult(**result_dict): the validated model, or a failure
\* (TypeError for a non-mapping, ValidationError for a bad field).
AIAnalysisResult(result_dict) ==
  IF result_dict.kind # "object" THEN [ok |-> FALSE]
  ELSE LET f == result_dict.fields
       IN IF /\ ResultFields \subseteq DOMAIN f
             /\ \A k \in StrFields : IsStr(f[k])
             /\ \A k \in ListFields : IsListOfStr(f[k])
             /\ IsScore(f["match_score"])
          THEN [ok |-> TRUE,
                model |-> [k \in ResultFields |->
                             IF k = "match_score" THEN JInt(CoerceInt(f[k]).v) ELSE f[k]]]
          ELSE [ok |-> FALSE]

_build_analysis_prompt(job_description, resume_text) ==
  [template |-> "You are an expert ATS analyzer and career advisor.",
   job_description |-> job_description,
   resume_text |-> resume_text]

\* Variant: a failed call is attempted once more.
generate_content_retry(prompt, ai) ==
  IF ai.error # "none" THEN <<prompt, prompt>> ELSE <<prompt>>

\* self.client.models.generate_content(model=..., contents=prompt): the calls
\* that reach the generation API when it answers ai.
generate_content(prompt, ai) == <<prompt>>

\* AIAgent.analyze_job_resume_match against the remote answer ai.
analyze_job_resume_match(job_description, resume_text, ai) ==
  LET prompt == _build_analysis_prompt(job_description, resume_text)
      calls == generate_content(prompt, ai)
      failed == [ok |-> FALSE, outbound |-> calls, constructed |-> FALSE,
                 error |-> ValueError(<<"AI analysis failed: ">>)]
      parsed == json_loads(Strip(ai.text))
      built == AIAnalysisResult(parsed.value)
  IN IF ai.error # "none" THEN failed        \* generate_content raised
     ELSE IF ai.no_text THEN failed          \* response.text is None
     ELSE IF ~parsed.ok
     THEN [ok |-> FALSE, outbound |-> calls, constructed |-> FALSE,
           error |-> ValueError(<<"AI returned invalid JSON">>)]
     ELSE IF ~built.ok THEN failed
     ELSE [ok |-> TRUE, outbound |-> calls, constructed |-> TRUE,
           analysis |-> built.model]

\* ------------------------------------------------------------------ ai router
\* Variant: the notes travel in the job description argument.
AnalysisInputWithNotes(request, resume_text) ==
  [job_description |-> request.user_notes, resume_text |-> resume_text]

\* The two arguments analyze_job hands to the analysis client.
AnalysisInput(request, resume_text) ==
  [job_description |-> request.job_description, resume_text |-> resume_text]

\* Variant: the row is left with the column default of status.
NewJobApplicationPending(id, u, request, analysis, t) ==
  [id |-> id, user_id |-> u,
   company_name |-> request.company_name,
   job_title |-> request.job_title,
   job_description |-> request.job_description,
   resume_drive_link |-> request.resume_drive_link,
   user_notes |-> request.user_notes,
   ai_analysis |-> analysis,
   status |-> "pending",
   created_at |-> t]

\* JobApplication(user_id=..., ..., status="analyzed") as the commit stores it.
NewJobApplication(id, u, request, analysis, t) ==
  [id |-> id, user_id |-> u,
   company_name |-> request.company_name,
   job_title |-> request.job_title,
   job_description |-> request.job_description,
   resume_drive_link |-> request.resume_drive_link,
   user_notes |-> request.user_notes,
   ai_analysis |-> analysis,
   status |-> "analyzed",
   created_at |-> t]

analyze_job(u, request, env, t) ==
  LET args == [request |-> request, env |-> env]
      x == extract(request.resume_drive_link, env, tmpfiles)
      given == AnalysisInput(request, x.text)
      a == analyze_job_resume_match(given.job_description, given.resume_text, env.ai)
      job_application == NewJobApplication(nextJobId, u, request, a.analysis, t)
      answer(code, body, outbound, constructed) ==
        [op |-> "analyze_job", user |-> u, args |-> args, code |-> code, body |-> body,
         io |-> [requests |-> x.requests, outbound |-> outbound,
                 constructed |-> constructed, cascaded |-> {}]]
  IN /\ tmpfiles' = x.files
     /\ UNCHANGED background
     /\ IF ~x.ok
        THEN /\ resp' = answer(400, x.error.msg, <<>>, FALSE)
             /\ UNCHANGED store
        ELSE IF ~a.ok
        THEN /\ resp' = answer(400, a.error.msg, a.outbound, a.constructed)
             /\ UNCHANGED store
        ELSE IF env.db = "commit"
        THEN \* db.commit() raises: nothing is written; the INSERT may have
             \* drawn an id from the sequence before it failed
             /\ resp' = answer(500, <<"Analysis failed: ">>, a.outbound, a.constructed)
             /\ nextJobId' \in {nextJobId, nextJobId + 1}
             /\ UNCHANGED <<jobs, notes, nextNoteId, clock>>
        ELSE /\ jobs' = [i \in JobIds \cup {nextJobId} |->
                           IF i = nextJobId THEN job_application ELSE jobs[i]]
             /\ nextJobId' = nextJobId + 1
             /\ clock' = t
             /\ resp' = IF env.db = "refresh"
                        THEN \* db.refresh() raises after the commit
                             answer(500, <<"Analysis failed: ">>, a.outbound, a.constructed)
                        ELSE answer(200,
                               [job_id |-> job_application.id,
                                company_name |-> job_application.company_name,
                                job_title |-> job_application.job_title,
                                analysis |-> a.analysis],
                               a.outbound, a.constructed)
             /\ UNCHANGED <<notes, nextNoteId>>

\* ------------------------------------------------------------- auth router
MinPasswordLen == 8
MaxPasswordBytes == 72

\* A password, by the two lengths the schema looks at.
Password(chars, bytes) == [chars |-> chars, bytes |-> bytes]

\* UserRegister.validate_password
validate_password(v) == v.chars >= MinPasswordLen /\ v.bytes <= MaxPasswordBytes

\* EmailStr keeps the local part and lower-cases the domain.
LowerDomain(d) == IF d = "EXAMPLE.COM" THEN "example.com" ELSE d
EmailStr(v) == [local |-> v.local, domain |-> LowerDomain(v.domain)]

\* The request body of register after validation.
UserRegister(email, password, is_fresher) ==
  [first_name |-> "Ann", last_name |-> "Lee", email |-> EmailStr(email),
   password |-> password, is_fresher |-> is_fresher]

get_password_hash(password) == [hash_of |-> password]
create_access_token(data) == [claims |-> data]

\* User(...) as register builds it, with the id the sequence gave it.
NewUser(id, user_data) ==
  [id |-> id, first_name |-> user_data.first_name, last_name |-> user_data.last_name,
   email |-> user_data.email,
   hashed_password |-> get_password_hash(user_data.password),
   is_fresher |-> user_data.is_fresher]

\* UserResponse.from_orm(new_user)
UserResponse(row) ==
  [id |-> row.id, email |-> row.email, first_name |-> row.first_name,
   last_name |-> row.last_name, is_fresher |-> row.is_fresher]

\* Variant: the email column carries no unique index.
UniqueEmailUnchecked(email) == TRUE

\* unique=True on User.email: the INSERT of a second row with the email fails.
UniqueEmail(email) == \A u \in users : u.email # email

\* ------------------------------------------------------ requests in flight
\* A request between two of its database statements. Each handler below is
\* cut at the statements it sends to the database: the query it starts with,
\* the flush and commit of db.commit(), and the SELECT of db.refresh().
Procs == 1..MaxProcs
Idle == [op |-> "idle", pc |-> "idle"]
At(p, op, pc) == inflight[p].op = op /\ inflight[p].pc = pc
Finish(p) == inflight' = [inflight EXCEPT ![p] = Idle]

\* Requests that have passed their query and will draw an id of the sequence.
Committing(op) == Cardinality({p \in Procs : At(p, op, "commit")})

\* register, up to its existence check (auth.py:35-40).
register_query(p, email, password, is_fresher) ==
  LET user_data == UserRegister(email, password, is_fresher)
      args == [email |-> email, password |-> password]
  IN /\ inflight[p] = Idle
     /\ UNCHANGED <<store, tmpfiles, users, nextUserId>>
     /\ IF ~validate_password(password)
        THEN /\ resp' = Response("register", NoUser, args, 422, "Password is not valid")
             /\ UNCHANGED inflight
        ELSE IF \E u \in users : u.email = user_data.email
        THEN /\ resp' = Response("register", NoUser, args, 400, "Email already registered")
             /\ UNCHANGED inflight
        ELSE /\ inflight' = [inflight EXCEPT ![p] =
                               [op |-> "register", pc |-> "commit",
                                args |-> args, user_data |-> user_data]]
             /\ UNCHANGED resp

\* register, from db.add to the response (auth.py:53-77). No request deletes
\* or changes a user, so db.refresh finds the row the commit wrote.
register_commit(p) ==
  LET user_data == inflight[p].user_data
      new_user == NewUser(nextUserId, user_data)
  IN /\ At(p, "register", "commit")
     /\ Finish(p)
     /\ nextUserId' = nextUserId + 1
     /\ UNCHANGED <<store, tmpfiles>>
     /\ IF ~UniqueEmail(user_data.email)
        THEN \* IntegrityError: except Exception, db.rollback(), 500
             /\ resp' = Response("register", NoUser, inflight[p].args, 500,
                                 "Registration failed: ")
             /\ UNCHANGED users
        ELSE /\ users' = users \cup {new_user}
             /\ resp' = Response("register", NoUser, inflight[p].args, 201,
                                 [access_token |->
                                    create_access_token([user_id |-> new_user.id,
                                                         sub |-> new_user.email]),
                                  token_type |-> "bearer",
                                  user |-> UserResponse(new_user)])

\* get_current_user: the user a valid bearer token names.
CurrentUsers == {u.id : u \in users}

\* Variant: notes.job_id carries no foreign key.
ForeignKeyUnchecked(job_id) == TRUE

\* ForeignKey("job_applications.id") on Note.job_id: the INSERT of a note whose
\* job application is not there fails.
ForeignKeyHolds(job_id) == job_id \in JobIds

\* create_note, up to its existence check (notes.py:32-34).
create_note_query(p, job_id, content) ==
  LET args == [job_id |-> job_id, content |-> content]
  IN /\ inflight[p] = Idle
     /\ UNCHANGED <<store, tmpfiles, users, nextUserId>>
     /\ IF job_id \notin JobIds
        THEN /\ resp' = NotFound("create_note", NoUser, args, "Job application not found")
             /\ UNCHANGED inflight
        ELSE /\ inflight' = [inflight EXCEPT ![p] =
                               [op |-> "create_note", pc |-> "commit", args |-> args]]
             /\ UNCHANGED resp

\* create_note: db.add(note); db.commit() (notes.py:37-43). The handler catches
\* nothing, so a failed INSERT leaves as a 500 with the session discarded.
create_note_commit(p, t) ==
  LET args == inflight[p].args
      note == [id |-> nextNoteId, job_id |-> args.job_id,
               content |-> args.content, created_at |-> t]
  IN /\ At(p, "create_note", "commit")
     /\ nextNoteId' = nextNoteId + 1
     /\ UNCHANGED <<jobs, nextJobId, tmpfiles, users, nextUserId>>
     /\ IF ~ForeignKeyHolds(args.job_id)
        THEN /\ resp' = Response("create_note", NoUser, args, 500, "IntegrityError")
             /\ Finish(p)
             /\ UNCHANGED <<notes, clock>>
        ELSE /\ notes' = notes \cup {note}
             /\ clock' = t
             /\ inflight' = [inflight EXCEPT ![p] =
                               [op |-> "create_note", pc |-> "refresh",
                                args |-> args, note |-> note]]
             /\ UNCHANGED resp

\* create_note: db.refresh(note) and the response (notes.py:44-48).
create_note_refresh(p) ==
  LET note == inflight[p].note
  IN /\ At(p, "create_note", "refresh")
     /\ Finish(p)
     /\ UNCHANGED <<store, tmpfiles, users, nextUserId>>
     /\ resp' = IF note \in notes
                THEN Response("create_note", NoUser, inflight[p].args, 201, note)
                ELSE Response("create_note", NoUser, inflight[p].args, 500,
                              "InvalidRequestError")

\* delete_note, up to its lookup (notes.py:81-84).
delete_note_query(p, note_id) ==
  LET args == [note_id |-> note_id]
  IN /\ inflight[p] = Idle
     /\ UNCHANGED <<store, tmpfiles, users, nextUserId>>
     /\ IF \A n \in notes : n.id # note_id
        THEN /\ resp' = NotFound("delete_note", NoUser, args, "Note not found")
             /\ UNCHANGED inflight
        ELSE /\ inflight' = [inflight EXCEPT ![p] =
                               [op |-> "delete_note", pc |-> "commit", args |-> args]]
             /\ UNCHANGED resp

\* delete_note: db.delete(note); db.commit() (notes.py:86-91). A DELETE that
\* finds the row already gone matches nothing and the commit goes through.
delete_note_commit(p) ==
  LET args == inflight[p].args
  IN /\ At(p, "delete_note", "commit")
     /\ Finish(p)
     /\ notes' = {n \in notes : n.id # args.note_id}
     /\ resp' = Response("delete_note", NoUser, args, 200, "Note deleted successfully")
     /\ UNCHANGED <<jobs, nextJobId, nextNoteId, clock, tmpfiles, users, nextUserId>>

\* delete_job, up to its lookup (jobs.py:127-133).
delete_job_query(p, u, job_id) ==
  LET args == [job_id |-> job_id]
  IN /\ inflight[p] = Idle
     /\ UNCHANGED <<store, tmpfiles, users, nextUserId>>
     /\ IF ~OwnedJob(u, job_id)
        THEN /\ resp' = NotFound("delete_job", u, args, "Job application not found")
             /\ UNCHANGED inflight
        ELSE /\ inflight' = [inflight EXCEPT ![p] =
                               [op |-> "delete_job", pc |-> "commit",
                                args |-> args, user |-> u]]
             /\ UNCHANGED resp

\* delete_job: db.delete(job); db.commit() (jobs.py:135-138). The session
\* deletes the notes it loads and then the job application, and the database
\* removes with the job application every note that still refers to it
\* (ondelete="CASCADE"); a row already gone matches nothing.
delete_job_commit(p) ==
  LET args == inflight[p].args
  IN /\ At(p, "delete_job", "commit")
     /\ Finish(p)
     /\ jobs' = [i \in JobIds \ {args.job_id} |-> jobs[i]]
     /\ notes' = CascadeNotes(args.job_id)
     /\ resp' = [Response("delete_job", inflight[p].user, args, 200,
                          "Job application deleted successfully")
                 EXCEPT !.io.cascaded = {n.id : n \in notes \ CascadeNotes(args.job_id)}]
     /\ UNCHANGED <<nextJobId, nextNoteId, clock, tmpfiles, users, nextUserId>>

\* analyze_job, up to db.add (ai.py:61-88): the resume download, the analysis
\* call and the validation of its answer send nothing to the database.
analyze_job_begin(p, u, request, env) ==
  LET args == [request |-> request, env |-> env]
      x == extract(request.resume_drive_link, env, tmpfiles)
      given == AnalysisInput(request, x.text)
      a == analyze_job_resume_match(given.job_description, given.resume_text, env.ai)
      io == [requests |-> x.requests,
             outbound |-> IF x.ok THEN a.outbound ELSE <<>>,
             constructed |-> IF x.ok THEN a.constructed ELSE FALSE,
             cascaded |-> {}]
      failed(msg) == [op |-> "analyze_job", user |-> u, args |-> args,
                      code |-> 400, body |-> msg, io |-> io]
  IN /\ inflight[p] = Idle
     /\ tmpfiles' = x.files
     /\ UNCHANGED <<store, users, nextUserId>>
     /\ IF ~x.ok
        THEN resp' = failed(x.error.msg) /\ UNCHANGED inflight
        ELSE IF ~a.ok
        THEN resp' = failed(a.error.msg) /\ UNCHANGED inflight
        ELSE /\ inflight' = [inflight EXCEPT ![p] =
                               [op |-> "analyze_job", pc |-> "commit", args |-> args,
                                user |-> u, analysis |-> a.analysis, io |-> io]]
             /\ UNCHANGED resp

\* analyze_job: db.add(job_application); db.commit() (ai.py:90-91).
analyze_job_commit(p, t) ==
  LET f == inflight[p]
      job_application == NewJobApplication(nextJobId, f.user, f.args.request, f.analysis, t)
  IN /\ At(p, "analyze_job", "commit")
     /\ UNCHANGED <<notes, nextNoteId, tmpfiles, users, nextUserId>>
     /\ IF f.args.env.db = "commit"
        THEN /\ resp' = [op |-> "analyze_job", user |-> f.user, args |-> f.args,
                         code |-> 500, body |-> <<"Analysis failed: ">>, io |-> f.io]
             /\ Finish(p)
             /\ nextJobId' \in {nextJobId, nextJobId + 1}
             /\ UNCHANGED <<jobs, clock>>
        ELSE /\ jobs' = [i \in JobIds \cup {nextJobId} |->
                           IF i = nextJobId THEN job_application ELSE jobs[i]]
             /\ nextJobId' = nextJobId + 1
             /\ clock' = t
             /\ inflight' = [inflight EXCEPT ![p] =
                               [op |-> "analyze_job", pc |-> "refresh", args |-> f.args,
                                user |-> f.user, analysis |-> f.analysis, io |-> f.io,
                                job_id |-> nextJobId]]
             /\ UNCHANGED resp

\* analyze_job: db.refresh(job_application) and the response (ai.py:92-109).
analyze_job_refresh(p) ==
  LET f == inflight[p]
      answer(code, body) == [op |-> "analyze_job", user |-> f.user, args |-> f.args,
                             code |-> code, body |-> body, io |-> f.io]
  IN /\ At(p, "analyze_job", "refresh")
     /\ Finish(p)
     /\ UNCHANGED <<store, tmpfiles, users, nextUserId>>
     /\ resp' = IF f.args.env.db = "refresh" \/ f.job_id \notin JobIds
                THEN answer(500, <<"Analysis failed: ">>)
                ELSE answer(200, [job_id |-> f.job_id,
                                  company_name |-> jobs[f.job_id].company_name,
                                  job_title |-> jobs[f.job_id].job_title,
                                  analysis |-> f.analysis])

\* ------------------------------------------------------------------- inputs
\* Sequences over S of length lo..hi.
SeqsOf(S, lo, hi) == UNION {[1..n -> S] : n \in lo..hi}

Links == SeqsOf(LinkPieces, 1, MaxLinkLen)
GoodLink == <<"/file/d/", "1aB_-9", "/view">>
BadLink == <<"/file/d/", "/view">>

Answer(error, content_type, text) ==
  [error |-> error, content_type |-> content_type, text |-> text]
PdfAnswer == Answer("none", "application/pdf", "%PDF")
Answers ==
  {Answer("ConnectionError", "", ""), Answer("HTTPError", "text/html; charset=utf-8",
                                             "<html>Sign in</html>")}
  \cup {Answer("none", ct, "%PDF") : ct \in ContentTypes \ {"text/html; charset=utf-8"}}
  \cup {Answer("none", "text/html; charset=utf-8", b) : b \in HtmlBodies}
  \cup {Answer("HTTPError", "text/html; charset=utf-8",
                "<a href='/uc?export=download&confirm=t0k3n'>"),
        Answer("none", "application/octet-stream",
               "<a href='/uc?export=download&confirm=t0k3n'>")}

Page(text) == [none |-> FALSE, text |-> text]
NoText == [none |-> TRUE, text |-> <<>>]
PageTexts ==
  {NoText, Page(<<>>), Page(<<Ws(1)>>), Page(<<Run("A", 23)>>), Page(<<Run("B", 24)>>),
   Page(<<Ws(1), Run("A", 49), Ws(1)>>), Page(<<Run("B", 50)>>)}
Document(pages) == [corrupt |-> FALSE, pages |-> pages]
Corrupt == [corrupt |-> TRUE, pages |-> <<>>]
Documents == {Corrupt} \cup {Document(p) : p \in SeqsOf(PageTexts, 0, MaxPages)}
ResumeA == Document(<<Page(<<Ws(1), Run("A", 49), Ws(1)>>), Page(<<Run("A", 23)>>)>>)
ResumeB == Document(<<Page(<<Run("B", 50)>>)>>)
ShortResume == Document(<<Page(<<Run("A", 23)>>), Page(<<Run("B", 24)>>)>>)

Skills == JArr(<<JStr("python"), JStr("sql")>>)
Analysis(score) ==
  JObj([k \in ResultFields |->
          IF k = "match_score" THEN score
          ELSE IF k = "job_summary" THEN JStr("Backend role") ELSE Skills])
GoodAnalysis == Analysis(JInt(85))
JsonValues ==
  {GoodAnalysis, Analysis(JInt(101)), Skills,
   JObj([k \in ResultFields \ {"match_score"} |-> GoodAnalysis.fields[k]]),
   Analysis(JStr("85")), Analysis(JStr("high")), Analysis(JNum(85, 0)),
   Analysis(JNum(85, 5)), Analysis(JInt(0 - 1)),
   JObj([GoodAnalysis.fields EXCEPT !["skill_gap"] = JArr(<<JStr("sql"), JInt(3)>>)]),
   JObj([GoodAnalysis.fields EXCEPT !["job_summary"] = JInt(7)])}
AiPieces == {Ws(1), Fence, Prose} \cup {JsonPiece(v) : v \in JsonValues}

Generated(text) == [error |-> "none", no_text |-> FALSE, text |-> text]
GoodAi == Generated(<<JsonPiece(GoodAnalysis)>>)
AiAnswers ==
  {[error |-> "APIError", no_text |-> FALSE, text |-> <<>>],
   [error |-> "none", no_text |-> TRUE, text |-> <<>>]}
  \cup {Generated(text) : text \in SeqsOf(AiPieces, 0, MaxAiLen)}
  \cup {Generated(<<Fence, JsonPiece(GoodAnalysis), Fence>>),
        Generated(<<Ws(1), JsonPiece(GoodAnalysis), Ws(1)>>)}

\* The world one request meets: the answers to the two download requests, the
\* outcome of creating and of writing the temporary file, the document
\* downloaded, the answer of the generation API, and the outcome of the
\* database calls ("ok", or the call that raises: "commit", "refresh").
Env(r1, r2, tmp, stream, doc, ai) ==
  [r1 |-> r1, r2 |-> r2, tmp |-> tmp, stream |-> stream, doc |-> doc, ai |-> ai,
   db |-> "ok"]
WithDb(env, db) == [env EXCEPT !.db = db]
GoodEnv == Env(PdfAnswer, PdfAnswer, "ok", "ok", ResumeA, GoodAi)

\* The remote and local conditions a download can meet.
DownloadEnvs ==
  {Env(r1, r2, tmp, stream, doc, GoodAi) :
     r1 \in Answers, r2 \in {PdfAnswer, Answer("HTTPError", "", "")},
     tmp \in {"ok", "OSError"}, stream \in {"ok", "RequestException", "OSError"},
     doc \in {ResumeA, ShortResume, Corrupt}}
DocumentEnvs == {Env(PdfAnswer, PdfAnswer, "ok", "ok", doc, GoodAi) : doc \in Documents}

ExtractInputs ==
  (Links \X {GoodEnv}) \cup ({GoodLink, BadLink} \X (DownloadEnvs \cup DocumentEnvs))

Request(company_name, job_title, job_description, resume_drive_link, user_notes) ==
  [company_name |-> company_name, job_title |-> job_title,
   job_description |-> job_description, resume_drive_link |-> resume_drive_link,
   user_notes |-> user_notes]

\* Accounts.
Email(local, domain) == [local |-> local, domain |-> domain]
Emails == {Email("ann", "example.com"), Email("ann", "EXAMPLE.COM"),
           Email("bob", "example.com")}
GoodPassword == Password(8, 8)
Passwords == {GoodPassword, Password(7, 7), Password(40, 80)}

\* The accounts of the principals Users, registered before the first request.
SeedUsers ==
  {NewUser(1, UserRegister(Email("ann", "example.com"), GoodPassword, TRUE)),
   NewUser(2, UserRegister(Email("bob", "example.com"), GoodPassword, FALSE))}

\* ------------------------------------------------------------ specifications
Init ==
  /\ jobs = <<>>
  /\ notes = {}
  /\ nextJobId = 1
  /\ nextNoteId = 1
  /\ clock = 0
  /\ tmpfiles = {}
  /\ resp = Response("none", NoUser, <<>>, 0, <<>>)
  /\ users = SeedUsers
  /\ nextUserId = 3
  /\ inflight = [p \in Procs |-> Idle]

\* The database clock at a commit: it has advanced since the last one, or not.
Times == {t \in {clock, clock + 1} : t <= MaxClock}

\* A direct call of ResumeExtractor.extract.
call_extract(drive_link, env) ==
  LET x == extract(drive_link, env, tmpfiles)
  IN /\ tmpfiles' = x.files
     /\ UNCHANGED background
     /\ resp' = Response("extract", NoUser, [drive_link |-> drive_link, env |-> env], 0, x)
     /\ UNCHANGED store

\* One call, made with some temporary files of other calls already on disk.
InitExtract ==
  /\ jobs = <<>>
  /\ notes = {}
  /\ nextJobId = 1
  /\ nextNoteId = 1
  /\ clock = 0
  /\ tmpfiles \in SUBSET (0..(MaxTmp - 1))
  /\ resp = Response("none", NoUser, <<>>, 0, <<>>)
  /\ users = SeedUsers
  /\ nextUserId = 3
  /\ inflight = [p \in Procs |-> Idle]

NextExtract ==
  \E in \in ExtractInputs :
     /\ resp.op = "none"
     /\ call_extract(in[1], in[2])

SpecExtract == InitExtract /\ [][NextExtract]_vars

\* Requests of the store specifications.
Notes1 == "Great culture, avoid Fridays"
StoreRequests == {Request("Acme", "Backend Engineer", "Build APIs in Python", GoodLink, Notes1)}
StoreEnvs == {GoodEnv, Env(PdfAnswer, PdfAnswer, "ok", "ok", ResumeA, Generated(<<Prose>>))}
StatusUpdates == {("status" :> ""), ("status" :> None)}
RequestedIds == 1..MaxJobs
NoteIds == 1..MaxNotes
Pages == 1..MaxJobs
PageSizes == {1, 2}
StatusFilters == {None, "", "analyzed"}

\* Ownership, cascade and notes.
Next ==
  \/ \E u \in Users, request \in StoreRequests, env \in StoreEnvs, t \in {clock} :
       nextJobId <= MaxJobs /\ analyze_job(u, request, env, t)
  \/ \E u \in Users, job_id \in RequestedIds : get_job(u, job_id)
  \/ \E u \in Users, job_id \in RequestedIds, job_update \in {("status" :> "applied")} :
       update_job(u, job_id, job_update)
  \/ \E u \in Users, job_id \in RequestedIds : delete_job(u, job_id)
  \/ \E job_id \in RequestedIds, t \in {clock} :
       nextNoteId <= MaxNotes /\ create_note(job_id, "Ask about on-call", t)
  \/ \E job_id \in RequestedIds : get_job_notes(job_id)
  \/ \E note_id \in NoteIds : delete_note(note_id)

Spec == Init /\ [][Next]_vars

\* Listing and pagination.
NextList ==
  \/ \E u \in Users, request \in StoreRequests, t \in Times :
       nextJobId <= MaxJobs /\ analyze_job(u, request, GoodEnv, t)
  \/ \E u \in Users, job_id \in RequestedIds, job_update \in StatusUpdates :
       update_job(u, job_id, job_update)
  \/ \E u \in Users, page \in Pages, page_size \in PageSizes, status \in StatusFilters :
       list_jobs(u, page, page_size, status)

SpecList == Init /\ [][NextList]_vars

\* Partial update.
FieldUpdates ==
  {<<>>,
   ("company_name" :> "Globex"),
   ("company_name" :> None @@ "job_title" :> "SRE"),
   ("job_title" :> "SRE" @@ "user_notes" :> None),
   ("job_description" :> "Run the platform" @@ "status" :> None)}

NextUpdate ==
  \/ \E request \in StoreRequests :
       nextJobId <= MaxJobs /\ analyze_job(1, request, GoodEnv, clock)
  \/ \E u \in Users, job_id \in RequestedIds, job_update \in FieldUpdates :
       update_job(u, job_id, job_update)

SpecUpdate == Init /\ [][NextUpdate]_vars

\* Analysis requests that differ in what is, and what is not, sent on.
AnalyzeRequests ==
  {Request("Acme", "Backend Engineer", jd, GoodLink, n) :
     jd \in {"Build APIs in Python", "Train ML models"}, n \in {None, Notes1}}
  \cup {Request("Globex", "SRE", "Build APIs in Python", GoodLink, "Pay is low")}
AnalyzeEnvs ==
  {GoodEnv,
   Env(PdfAnswer, PdfAnswer, "ok", "ok", ResumeB, GoodAi),
   Env(PdfAnswer, PdfAnswer, "ok", "ok", ResumeB, Generated(<<Prose>>)),
   Env(PdfAnswer, PdfAnswer, "ok", "ok", ShortResume, GoodAi)}

NextAnalyze ==
  \E u \in Users, request \in AnalyzeRequests, env \in AnalyzeEnvs, t \in {clock} :
     nextJobId <= MaxJobs /\ analyze_job(u, request, env, t)

SpecAnalyze == Init /\ [][NextAnalyze]_vars

\* One analysis request against every answer of the generation API.
ClientEnvs == {Env(PdfAnswer, PdfAnswer, "ok", "ok", ResumeA, ai) : ai \in AiAnswers}

NextClient ==
  \E request \in StoreRequests \cup {Request("Acme", "SRE", "Train ML models", GoodLink, None)},
     env \in ClientEnvs :
     resp.op = "none" /\ analyze_job(1, request, env, clock)

SpecClient == Init /\ [][NextClient]_vars

\* The whole analysis pipeline: every stage succeeding or failing.
ApiError == [error |-> "APIError", no_text |-> FALSE, text |-> <<>>]
PipelineRequests ==
  {Request("Acme", "Backend Engineer", "Build APIs in Python", GoodLink, Notes1),
   Request("Globex", "SRE", "Run the platform", GoodLink, None),
   Request("Acme", "Backend Engineer", "Build APIs in Python", BadLink, Notes1)}
PipelineEnvs ==
  {GoodEnv,
   Env(Answer("ConnectionError", "", ""), PdfAnswer, "ok", "ok", ResumeA, GoodAi),
   Env(PdfAnswer, PdfAnswer, "ok", "ok", ShortResume, GoodAi),
   Env(PdfAnswer, PdfAnswer, "ok", "ok", Corrupt, GoodAi),
   Env(PdfAnswer, PdfAnswer, "ok", "ok", ResumeA, Generated(<<Prose>>)),
   Env(PdfAnswer, PdfAnswer, "ok", "ok", ResumeA,
       Generated(<<JsonPiece(Analysis(JInt(101)))>>)),
   Env(PdfAnswer, PdfAnswer, "ok", "ok", ResumeA, ApiError),
   WithDb(GoodEnv, "commit"),
   WithDb(GoodEnv, "refresh")}

NextPipeline ==
  \E u \in Users, request \in PipelineRequests, env \in PipelineEnvs, t \in {clock} :
     nextJobId <= MaxJobs /\ analyze_job(u, request, env, t)

SpecPipeline == Init /\ [][NextPipeline]_vars

\* Pages a job URL answers with.
Block(tag, class, c, n) == El(tag, class, <<Txt(<<Run(c, n)>>)>>)
BodyElements ==
  {Block("div", <<"job-description">>, "A", 150),
   Block("div", <<"box", "job-description">>, "B", 80),
   Block("div", <<"main-content">>, "C", 300),
   Block("article", <<>>, "D", 101),
   Block("div", <<>>, "E", 600),
   Block("section", <<>>, "F", 20000),
   Block("div", <<>>, "G", 500),
   Block("p", <<>>, "H", 150),
   Block("p", <<>>, "I", 100),
   Block("nav", <<"job-description">>, "J", 1000),
   Block("h1", <<>>, "Senior Engineer", 15),
   El("h1", <<>>, <<Txt(<<Ws(2), Nl>>)>>),
   Block("span", <<"senior-job-title">>, "Staff Engineer", 14),
   Block("span", <<"company-name">>, "Acme", 4),
   El("span", <<"employer-info">>, <<>>),
   El("div", <<>>, <<Block("p", <<>>, "K", 300), Txt(<<Nl, Ws(4)>>),
                     Block("p", <<>>, "L", 300)>>),
   El("div", <<>>, <<Block("div", <<>>, "M", 600), Block("p", <<>>, "N", 25000)>>),
   El("div", <<"description">>,
      <<Txt(<<Ws(2), Run("O", 60), Nl, Run("O", 60), [c |-> "nl", n |-> 2],
              Ws(1), Run("P", 40), Nl>>)>>)}
Html(title, has_body, children) ==
  <<El("html", <<>>,
       (IF title = <<>> THEN <<>>
        ELSE <<El("head", <<>>, <<El("title", <<>>, <<Txt(title)>>)>>)>>)
       \o (IF has_body THEN <<El("body", <<>>, children)>> ELSE children))>>
Pages200 ==
  {[error |-> "none", nodes |-> Html(title, has_body, children)] :
     title \in {<<>>, <<Run("Jobs at Acme", 12)>>}, has_body \in BOOLEAN,
     children \in SeqsOf(BodyElements, 0, MaxNodes)}
JobPages == Pages200 \cup {[error |-> "HTTPError", nodes |-> <<>>]}

call_job_extract(page) ==
  /\ resp' = Response("job_extract", NoUser, [page |-> page], 0, job_extract(page))
  /\ UNCHANGED <<store, tmpfiles, background>>

NextJob == \E page \in JobPages : resp.op = "none" /\ call_job_extract(page)

SpecJob == Init /\ [][NextJob]_vars

\* Direct calls of _clean_text.
TextRuns == {Ws(1), Nl, Run("A", 3), Run("B", 3)}
Texts == {Canon(s) : s \in SeqsOf(TextRuns, 0, MaxTextLen)}

call_clean_text(text) ==
  /\ resp' = Response("_clean_text", NoUser, [text |-> text], 0,
                       [text |-> _clean_text(text),
                        again |-> _clean_text(_clean_text(text))])
  /\ UNCHANGED <<store, tmpfiles, background>>

NextClean == \E text \in Texts : resp.op = "none" /\ call_clean_text(text)

SpecClean == Init /\ [][NextClean]_vars

\* Requests handled at the same time by several workers on one database.
NextConcurrent ==
  \/ \E p \in Procs, u \in Users, request \in StoreRequests :
       /\ nextJobId + Committing("analyze_job") <= MaxRaceJobs
       /\ analyze_job_begin(p, u, request, GoodEnv)
  \/ \E p \in Procs : analyze_job_commit(p, clock)
  \/ \E p \in Procs : analyze_job_refresh(p)
  \/ \E p \in Procs, job_id \in 1..MaxRaceJobs :
       /\ nextNoteId + Committing("create_note") <= MaxRaceNotes
       /\ create_note_query(p, job_id, "Ask about on-call")
  \/ \E p \in Procs : create_note_commit(p, clock)
  \/ \E p \in Procs : create_note_refresh(p)
  \/ \E p \in Procs, note_id \in 1..MaxRaceNotes : delete_note_query(p, note_id)
  \/ \E p \in Procs : delete_note_commit(p)
  \/ \E p \in Procs, u \in Users, job_id \in 1..MaxRaceJobs : delete_job_query(p, u, job_id)
  \/ \E p \in Procs : delete_job_commit(p)

SpecConcurrent == Init /\ [][NextConcurrent]_vars

\* The database after init_db: no rows yet.
InitAccounts ==
  /\ jobs = <<>>
  /\ notes = {}
  /\ nextJobId = 1
  /\ nextNoteId = 1
  /\ clock = 0
  /\ tmpfiles = {}
  /\ resp = Response("none", NoUser, <<>>, 0, <<>>)
  /\ users = {}
  /\ nextUserId = 1
  /\ inflight = [p \in Procs |-> Idle]

\* Registrations handled at the same time.
NextRegister ==
  \/ \E p \in Procs, email \in Emails, password \in Passwords :
       /\ nextUserId + Committing("register") <= MaxUsers
       /\ register_query(p, email, password, TRUE)
  \/ \E p \in Procs : register_commit(p)

SpecRegister == InitAccounts /\ [][NextRegister]_vars

\* Accounts, job applications and notes from the empty database on.
AccountEnvs ==
  {GoodEnv,
   Env(PdfAnswer, PdfAnswer, "ok", "ok", ResumeA,
       Generated(<<JsonPiece(Analysis(JStr("85")))>>)),
   Env(PdfAnswer, PdfAnswer, "ok", "ok", ResumeA,
       Generated(<<JsonPiece(Analysis(JInt(101)))>>)),
   Env(PdfAnswer, PdfAnswer, "ok", "ok", ResumeA,
       Generated(<<JsonPiece(Analysis(JInt(0)))>>)),
   Env(PdfAnswer, PdfAnswer, "ok", "ok", ResumeA, Generated(<<JsonPiece(Skills)>>))}
UpdateBodies ==
  {("status" :> "applied"),
   ("status" :> "applied" @@ "ai_analysis" :> [match_score |-> JInt(150)]),
   ("job_title" :> "SRE" @@ "user_id" :> 2 @@ "id" :> 2)}

NextAccounts ==
  \/ \E p \in {1}, email \in Emails :     \* registrations one at a time
       /\ nextUserId + Committing("register") <= MaxUsers
       /\ register_query(p, email, GoodPassword, TRUE)
  \/ \E p \in {1} : register_commit(p)
  \/ \E u \in CurrentUsers, request \in StoreRequests, env \in AccountEnvs :
       nextJobId <= MaxRaceJobs /\ analyze_job(u, request, env, clock)
  \/ \E u \in CurrentUsers, job_id \in 1..MaxRaceJobs, body \in UpdateBodies :
       update_job(u, job_id, JobUpdate(body))
  \/ \E u \in CurrentUsers, job_id \in 1..MaxRaceJobs : delete_job(u, job_id)
  \/ \E job_id \in 1..MaxRaceJobs :
       nextNoteId <= MaxRaceNotes /\ create_note(job_id, "Ask about on-call", clock)
  \/ \E note_id \in 1..MaxRaceNotes : delete_note(note_id)

SpecAccounts == InitAccounts /\ [][NextAccounts]_vars

\* =================================================================== claims

\* C1: the prompt sent to the analysis client depends on job_description and
\* the extracted resume text only: two analyze_job requests handled one after
\* the other that agree on job_description, resume link and remote answers
\* send the same prompt whatever their user_notes, company_name and job_title,
\* each sends at most one prompt, and no field of a prompt is the user_notes.
C1_PromptOf(r) == r.io.outbound
C1_NotesAbsent ==
  resp.op = "analyze_job" =>
    /\ Len(C1_PromptOf(resp)) <= 1
    /\ \A k \in 1..Len(C1_PromptOf(resp)) :
         /\ DOMAIN C1_PromptOf(resp)[k] = {"template", "job_description", "resume_text"}
         /\ C1_PromptOf(resp)[k].job_description = resp.args.request.job_description
         /\ C1_PromptOf(resp)[k].job_description # resp.args.request.user_notes
         /\ C1_PromptOf(resp)[k].template # resp.args.request.user_notes
C1_SameButNotes ==
  /\ resp.op = "analyze_job" /\ resp'.op = "analyze_job"
  /\ resp.args.request.job_description = resp'.args.request.job_description
  /\ resp.args.request.resume_drive_link = resp'.args.request.resume_drive_link
  /\ resp.args.env = resp'.args.env
C1_NotesNeverSent ==
  /\ []C1_NotesAbsent
  /\ [][C1_SameButNotes => C1_PromptOf(resp') = C1_PromptOf(resp)]_vars
C1_Witness ==
  /\ resp.op = "analyze_job" /\ resp.code = 200
  /\ resp.args.request.user_notes = Notes1
  /\ Len(resp.io.outbound) = 1
  /\ resp.body.job_id \in JobIds
  /\ jobs[resp.body.job_id].user_notes = Notes1

\* C2: a get_job, update_job or delete_job request of user B for the id of a
\* job application owned by another user A answers 404 and leaves every job
\* application and every note unchanged.
C2_ForeignRequest ==
  /\ resp'.op \in {"get_job", "update_job", "delete_job"}
  /\ resp'.args.job_id \in JobIds
  /\ jobs[resp'.args.job_id].user_id # resp'.user
C2_ForeignJob404 ==
  [][C2_ForeignRequest => resp'.code = 404 /\ jobs' = jobs /\ notes' = notes]_vars
C2_Witness ==
  /\ resp.op = "delete_job" /\ resp.code = 404
  /\ resp.args.job_id \in JobIds
  /\ jobs[resp.args.job_id].user_id # resp.user
  /\ \E n \in notes : n.job_id = resp.args.job_id

\* C3 (as stated): a successful list_jobs of user U returns only stored rows
\* of U, newest first, counts only U's rows, and whenever a status filter is
\* supplied returns only rows whose status equals it.
C3_Items == resp.body.jobs
C3_Scoped ==
  /\ \A k \in 1..Len(C3_Items) :
       /\ C3_Items[k].user_id = resp.user
       /\ C3_Items[k].id \in JobIds
       /\ jobs[C3_Items[k].id] = C3_Items[k]
  /\ \A i, j \in 1..Len(C3_Items) :
       i < j => C3_Items[i].created_at >= C3_Items[j].created_at /\ C3_Items[i] # C3_Items[j]
  /\ resp.body.total <= Cardinality({i \in JobIds : jobs[i].user_id = resp.user})
C3_ListAsStated ==
  (resp.op = "list_jobs" /\ resp.code = 200) =>
    /\ C3_Scoped
    /\ resp.args.status # None =>
         /\ \A k \in 1..Len(C3_Items) : C3_Items[k].status = resp.args.status
         /\ resp.body.total =
              Cardinality({i \in JobIds : /\ jobs[i].user_id = resp.user
                                          /\ jobs[i].status = resp.args.status})

\* C3 as list_jobs behaves: the same, the status filter applying only when it is a
\* non-empty string; an empty filter lists, and counts, all rows of U.
C3_ListScopedAndFiltered ==
  (resp.op = "list_jobs" /\ resp.code = 200) =>
    /\ C3_Scoped
    /\ resp.body.total =
         Cardinality({i \in JobIds :
            /\ jobs[i].user_id = resp.user
            /\ resp.args.status \notin {None, ""} => jobs[i].status = resp.args.status})
    /\ resp.args.status \notin {None, ""} =>
         \A k \in 1..Len(C3_Items) : C3_Items[k].status = resp.args.status
C3_Witness ==
  /\ resp.op = "list_jobs" /\ resp.code = 200
  /\ resp.args.status = "analyzed"
  /\ Len(C3_Items) = 1
  /\ \E i \in JobIds : jobs[i].user_id # resp.user
C3_EmptyFilterWitness ==
  /\ resp.op = "list_jobs" /\ resp.code = 200
  /\ resp.args.status = ""
  /\ \E k \in 1..Len(C3_Items) : C3_Items[k].status = "analyzed"

\* C4: for a user with N job applications matching the status filter,
\* list_jobs(page p, page_size s) returns exactly min(s, max(0, N-(p-1)*s))
\* items and total = N, and consecutive pages of one listing share no job
\* application and together hold the first 2*s of them.
C4_Matching(r) ==
  {i \in JobIds :
     /\ jobs[i].user_id = r.user
     /\ r.args.status \notin {None, ""} => jobs[i].status = r.args.status}
C4_Ids(r) == {r.body.jobs[k].id : k \in 1..Len(r.body.jobs)}
C4_Counts ==
  resp.op = "list_jobs" =>
    /\ resp.code = 200
    /\ resp.body.total = Cardinality(C4_Matching(resp))
    /\ Len(resp.body.jobs) =
         Min(resp.args.page_size,
             Max(0, Cardinality(C4_Matching(resp))
                      - (resp.args.page - 1) * resp.args.page_size))
C4_NextPage ==
  /\ resp.op = "list_jobs" /\ resp'.op = "list_jobs"
  /\ resp.code = 200 /\ resp'.code = 200
  /\ resp'.user = resp.user
  /\ resp'.args.status = resp.args.status
  /\ resp'.args.page_size = resp.args.page_size
  /\ resp.args.page = 1 /\ resp'.args.page = 2
C4_Disjoint ==
  /\ C4_Ids(resp) \cap C4_Ids(resp') = {}
  /\ Cardinality(C4_Ids(resp) \cup C4_Ids(resp')) =
       Min(2 * resp.args.page_size, Cardinality(C4_Matching(resp)))
C4_PaginationAsStated ==
  /\ []C4_Counts
  /\ [][C4_NextPage => C4_Disjoint]_vars
\* The two halves of C4, each alone.
C4_CountsAlways == []C4_Counts
C4_PagesPartition == [][C4_NextPage => C4_Disjoint]_vars
\* C4 restricted to listings that answer 200.
C4_CountsWhenAnswered ==
  (resp.op = "list_jobs" /\ resp.code = 200) =>
    /\ resp.body.total = Cardinality(C4_Matching(resp))
    /\ Len(resp.body.jobs) =
         Min(resp.args.page_size,
             Max(0, Cardinality(C4_Matching(resp))
                      - (resp.args.page - 1) * resp.args.page_size))

\* C5: a successful delete_job of job J removes J and every note of J in one
\* commit and leaves the notes of other jobs unchanged; in no state does a
\* note refer to a job application that is gone.
C5_NoOrphan == \A n \in notes : n.job_id \in JobIds
C5_Deleted == resp'.op = "delete_job" /\ resp'.code = 200
C5_Cascade ==
  /\ resp'.args.job_id \in JobIds
  /\ resp'.args.job_id \notin DOMAIN jobs'
  /\ \A n \in notes' : n.job_id # resp'.args.job_id
  /\ notes' = {n \in notes : n.job_id # resp'.args.job_id}
  /\ \A i \in DOMAIN jobs' : jobs'[i] = jobs[i]
C5_DeleteCascades ==
  /\ []C5_NoOrphan
  /\ [][C5_Deleted => C5_Cascade]_vars
C5_Witness ==
  /\ resp.op = "delete_job" /\ resp.code = 200
  /\ Cardinality(resp.io.cascaded) = 2
  /\ notes = {}

\* C6 (as stated): update_job of an owned job leaves the row with exactly the
\* request's fields set to the request's values and every other column as it
\* was, and changes no other row.
C6_Owned ==
  /\ resp'.op = "update_job"
  /\ resp'.args.job_id \in JobIds
  /\ jobs[resp'.args.job_id].user_id = resp'.user
C6_Applied ==
  LET id == resp'.args.job_id
      upd == resp'.args.job_update
  IN /\ DOMAIN jobs' = JobIds
     /\ \A c \in JobColumns :
          jobs'[id][c] = IF c \in DOMAIN upd THEN upd[c] ELSE jobs[id][c]
     /\ \A i \in JobIds \ {id} : jobs'[i] = jobs[i]
     /\ notes' = notes
C6_UpdateAsStated == [][C6_Owned => C6_Applied]_vars

\* C6 as update_job behaves: the same whenever the commit is accepted; a request that
\* sets company_name, job_title or job_description to null is rejected at
\* commit: it answers 500 and changes nothing. Requests for a job that is not
\* the requester's change nothing.
C6_Rejected ==
  \E c \in DOMAIN resp'.args.job_update \cap {"company_name", "job_title", "job_description"} :
     resp'.args.job_update[c] = None
C6_PartialUpdate ==
  [][resp'.op = "update_job" =>
       IF C6_Owned /\ ~C6_Rejected THEN C6_Applied
       ELSE /\ jobs' = jobs /\ notes' = notes
            /\ resp'.code = IF C6_Owned THEN 500 ELSE 404]_vars
C6_Witness ==
  /\ resp.op = "update_job" /\ resp.code = 200
  /\ DOMAIN resp.args.job_update = {"job_title", "user_notes"}
  /\ jobs[resp.args.job_id].job_title = "SRE"
  /\ jobs[resp.args.job_id].user_notes = None
  /\ jobs[resp.args.job_id].company_name = "Acme"
  /\ \E i \in JobIds : i # resp.args.job_id /\ jobs[i].job_title = "Backend Engineer"
C6_RejectedWitness ==
  /\ resp.op = "update_job" /\ resp.code = 500
  /\ "company_name" \in DOMAIN resp.args.job_update
  /\ jobs[resp.args.job_id].job_title = "Backend Engineer"

\* C7: when a call of ResumeExtractor.extract returns or raises, every
\* temporary file it created has been removed, and it created at most one.
C7_TempFilesRemoved ==
  resp.op = "extract" =>
    /\ Cardinality(resp.body.created) <= 1
    /\ resp.body.created \cap tmpfiles = {}
\* C7 on the paths that reach the try block of extract.
C7_RemovedAfterDownload ==
  (resp.op = "extract" /\ resp.args.env.tmp = "ok" /\ resp.args.env.stream = "ok") =>
    /\ Cardinality(resp.body.created) <= 1
    /\ resp.body.created \cap tmpfiles = {}

\* C8: for a resume link holding neither /file/d/<id> nor ?id=<id> nor
\* &id=<id>, extract fails with the invalid-link error, requests nothing from
\* the network and creates no temporary file.
C8_HasId(link) ==
  \E i \in 1..(Len(link) - 1) :
     link[i] \in {"/file/d/", "?id=", "&id="} /\ link[i + 1] \in IdPieces
C8_InvalidLink ==
  (resp.op = "extract" /\ ~C8_HasId(resp.args.drive_link)) =>
    /\ ~resp.body.ok
    /\ resp.body.error.type = "ValueError"
    /\ resp.body.error.msg = <<"Failed to extract resume: ",
                               "Invalid Google Drive link. Could not extract file ID.">>
    /\ resp.body.requests = <<>>
    /\ resp.body.created = {}
    /\ resp.body.files = tmpfiles
C8_Witness ==
  /\ resp.op = "extract"
  /\ resp.args.drive_link = <<"/file/d/", "#id=", "Zz0">>
  /\ ~resp.body.ok
  /\ tmpfiles = {0}

\* C9: extract returns a text only when the pages' texts, joined and
\* stripped, have at least 50 characters, and then returns exactly that text;
\* a document that was downloaded and parsed but yields fewer characters
\* fails with the too-short error.
C9_Combined(doc) ==
  LET parts == SelectSeq(doc.pages, LAMBDA pg : ~pg.none /\ TextLen(pg.text) > 0)
  IN Strip(Join(<<Ws(2)>>, [k \in 1..Len(parts) |-> parts[k].text]))
C9_Parsed ==
  /\ resp.op = "extract"
  /\ ~resp.args.env.doc.corrupt
  /\ resp.body.ok \/ resp.body.error.msg[2] \notin
       {"Invalid Google Drive link. Could not extract file ID.",
        "Failed to download resume from Google Drive: ",
        "No space left on device"}
C9_MinimumLength ==
  /\ (resp.op = "extract" /\ resp.body.ok) =>
       /\ TextLen(Strip(resp.body.text)) >= 50
       /\ resp.body.text = C9_Combined(resp.args.env.doc)
  /\ C9_Parsed =>
       IF TextLen(C9_Combined(resp.args.env.doc)) >= 50
       THEN resp.body.ok
       ELSE /\ ~resp.body.ok
            /\ resp.body.error.msg = <<"Failed to extract resume: ",
                                       "Extracted resume text is too short or empty">>
C9_Witness ==
  /\ resp.op = "extract"
  /\ TextLen(C9_Combined(resp.args.env.doc)) = 49
  /\ Len(resp.args.env.doc.pages) = 2
  /\ ~resp.body.ok
  /\ resp.body.created # {}
C9_ReturnedWitness ==
  /\ resp.op = "extract" /\ resp.body.ok
  /\ TextLen(resp.body.text) = 50

\* C10: when the generation API answers with a text that is not one JSON
\* document (whitespace around it aside), the analysis fails with the
\* invalid-JSON error, no AIAnalysisResult is built and nothing is stored.
C10_IsJson(text) ==
  \E k \in 1..Len(text) :
     text[k].c = "json" /\ \A j \in 1..Len(text) : j # k => text[j].c = "ws"
C10_Answered ==
  /\ resp.op = "analyze_job"
  /\ resp.io.outbound # <<>>
  /\ resp.args.env.ai.error = "none"
  /\ ~resp.args.env.ai.no_text
C10_InvalidJson ==
  (C10_Answered /\ ~C10_IsJson(resp.args.env.ai.text)) =>
    /\ resp.code = 400
    /\ resp.body = <<"AI returned invalid JSON">>
    /\ ~resp.io.constructed
    /\ jobs = <<>>
C10_Witness ==
  /\ C10_Answered
  /\ resp.args.env.ai.text = <<Fence, JsonPiece(GoodAnalysis), Fence>>
  /\ resp.code = 400

\* C11 (as stated): when the generation API answers with one JSON document,
\* the analysis returns a result exactly when the document is an object
\* holding the six fields with job_summary a string, the four list fields
\* lists of strings and match_score an integer in 0..100; otherwise it fails
\* and nothing is built or stored.
C11_Answered ==
  /\ resp.op = "analyze_job"
  /\ resp.io.outbound # <<>>
  /\ resp.args.env.ai.error = "none"
  /\ ~resp.args.env.ai.no_text
  /\ \E k \in 1..Len(resp.args.env.ai.text) :
        /\ resp.args.env.ai.text[k].c = "json"
        /\ \A j \in 1..Len(resp.args.env.ai.text) :
              j # k => resp.args.env.ai.text[j].c = "ws"
C11_Value ==
  LET text == resp.args.env.ai.text
  IN text[CHOOSE k \in 1..Len(text) : text[k].c = "json"].v
C11_Typed(v) ==
  /\ v.kind = "object"
  /\ {"job_summary", "required_skills", "resume_skills", "skill_gap",
      "match_score", "preparation_tips"} \subseteq DOMAIN v.fields
  /\ v.fields["job_summary"].kind = "string"
  /\ \A k \in {"required_skills", "resume_skills", "skill_gap", "preparation_tips"} :
        /\ v.fields[k].kind = "array"
        /\ \A i \in 1..Len(v.fields[k].items) : v.fields[k].items[i].kind = "string"
C11_IntegerScore(v) ==
  LET s == v.fields["match_score"]
  IN s.kind = "int" /\ s.v \in 0..100
\* match_score as the validator reads it: an integer, a float with no
\* fractional part or a string spelling an integer, the number being in 0..100.
C11_IntegerLikeScore(v) ==
  LET s == v.fields["match_score"]
  IN \/ s.kind = "int" /\ s.v \in 0..100
     \/ s.kind = "float" /\ s.frac = 0 /\ s.whole \in 0..100
     \/ s.kind = "string" /\ s.s \in {"85"}
C11_Returned ==
  /\ resp.code = 200
  /\ resp.io.constructed
  /\ resp.body.analysis["match_score"].kind = "int"
  /\ resp.body.analysis["match_score"].v \in 0..100
  /\ \A k \in DOMAIN resp.body.analysis :
        k # "match_score" => resp.body.analysis[k] = C11_Value.fields[k]
C11_Failed ==
  /\ resp.code = 400
  /\ resp.body = <<"AI analysis failed: ">>
  /\ ~resp.io.constructed
  /\ jobs = <<>>
C11_CoercedWitness ==
  /\ C11_Answered
  /\ C11_Value = Analysis(JStr("85"))
  /\ C11_Returned
  /\ resp.body.analysis["match_score"] = JInt(85)

\* C12: every call of analyze_job_resume_match sends exactly one prompt to the
\* generation API, whether the API answers, answers something unusable or
\* fails, and also when the same request was handled just before; a failure
\* of the API call surfaces as the analysis-failed error.
C12_Called(r) ==
  /\ r.op = "analyze_job"
  /\ extract(r.args.request.resume_drive_link, r.args.env, {}).ok
C12_OneCall(r) ==
  /\ Len(r.io.outbound) = 1
  /\ r.io.outbound[1].job_description = r.args.request.job_description
  /\ r.args.env.ai.error # "none" =>
        /\ r.code = 400
        /\ r.body = <<"AI analysis failed: ">>
        /\ ~r.io.constructed
C12_SingleAttempt ==
  /\ [](C12_Called(resp) => C12_OneCall(resp))
  /\ [][(C12_Called(resp) /\ C12_Called(resp') /\ resp'.args = resp.args)
          => C12_OneCall(resp')]_vars
C12_Witness ==
  /\ C12_Called(resp)
  /\ resp.args.env.ai.error = "APIError"
  /\ Len(resp.io.outbound) = 1
  /\ resp.code = 400
C12_RepeatWitness ==
  /\ C12_Called(resp)
  /\ resp.code = 200
  /\ Cardinality(JobIds) = 2
  /\ \A i \in JobIds : jobs[i].job_description = resp.args.request.job_description
  /\ Len(resp.io.outbound) = 1

\* C13: analyze_job answers a failure by its kind: 400 when the first stage
\* to fail is validation-shaped (no file id in the link, an unreadable or
\* too short resume, an unparseable or schema-invalid generated answer), 500
\* when it is not (a transport or API failure of a remote call, a failure of
\* the database), and 200 only when no stage fails.
C13_Kind(r) ==
  LET env == r.args.env
      doc == _extract_text_from_pdf(env.doc)
      parsed == json_loads(Strip(env.ai.text))
  IN IF ~_get_download_url(r.args.request.resume_drive_link).ok THEN "validation"
     ELSE IF env.r1.error # "none" \/ env.tmp # "ok" \/ env.stream # "ok" THEN "unexpected"
     ELSE IF ~doc.ok \/ TooShort(doc.text) THEN "validation"
     ELSE IF env.ai.error # "none" THEN "unexpected"
     ELSE IF env.ai.no_text \/ ~parsed.ok THEN "validation"
     ELSE IF ~AIAnalysisResult(parsed.value).ok THEN "validation"
     ELSE IF env.db # "ok" THEN "unexpected"
     ELSE "none"
C13_ErrorsByKind ==
  resp.op = "analyze_job" =>
    /\ C13_Kind(resp) = "validation" => resp.code = 400
    /\ C13_Kind(resp) = "unexpected" => resp.code = 500
    /\ C13_Kind(resp) = "none" => resp.code = 200

\* C13 as analyze_job behaves: every failure of the resume extractor and of
\* the analysis client, whatever its kind, answers 400; only a failure of the
\* database answers 500; a failure never answers 200.
C13_ErrorsAsHandled ==
  resp.op = "analyze_job" =>
    /\ resp.code \in {200, 400, 500}
    /\ resp.code = 200 <=> C13_Kind(resp) = "none"
    /\ resp.code = 500 <=> (resp.io.constructed /\ resp.args.env.db # "ok")
C13_TransportWitness ==
  /\ resp.op = "analyze_job"
  /\ resp.args.env.ai.error = "APIError"
  /\ C13_Kind(resp) = "unexpected"
  /\ resp.code = 400

\* C16: the text _clean_text returns has no blank line and no two adjacent
\* equal lines; its lines are the stripped non-blank lines of the input in
\* their order, one for each run of equal lines; cleaning it again changes
\* nothing.
C16_Lines(text) == Split(text)
C16_NonBlank(text) ==
  LET l == C16_Lines(text)
  IN SelectSeq([k \in 1..Len(l) |-> Strip(l[k])], LAMBDA line : line # <<>>)
\* out picks one line of every run of equal lines of src, in order.
C16_Representatives(out, src) ==
  \E pick \in [1..Len(out) -> 1..Len(src)] :
     /\ \A k \in 1..Len(out) : out[k] = src[pick[k]]
     /\ \A k \in 1..(Len(out) - 1) : pick[k] < pick[k + 1]
     /\ \A j \in 1..Len(src) :
           \E k \in 1..Len(out) :
              LET lo == Min(j, pick[k])
                  hi == Max(j, pick[k])
              IN \A m \in lo..hi : src[m] = src[j]
C16_Clean(out, src) ==
  /\ out # <<>> =>
        /\ \A k \in 1..Len(C16_Lines(out)) : Strip(C16_Lines(out)[k]) # <<>>
        /\ \A k \in 1..Len(C16_Lines(out)) : Strip(C16_Lines(out)[k]) = C16_Lines(out)[k]
        /\ \A k \in 1..(Len(C16_Lines(out)) - 1) :
              C16_Lines(out)[k] # C16_Lines(out)[k + 1]
  /\ out = <<>> <=> C16_NonBlank(src) = <<>>
  /\ out # <<>> => C16_Representatives(C16_Lines(out), C16_NonBlank(src))
C16_CleanText ==
  resp.op = "_clean_text" =>
    /\ C16_Clean(resp.body.text, resp.args.text)
    /\ resp.body.again = resp.body.text
C16_Witness ==
  /\ resp.op = "_clean_text"
  /\ resp.args.text = <<Run("A", 3), [c |-> "nl", n |-> 2], Run("A", 3)>>
  /\ resp.body.text = <<Run("A", 3)>>

\* C14: the description JobExtractor.extract returns is the cleaned text of
\* (1) the first selector in list order whose first matching element has more
\* than 100 characters of text; (2) if there is none, the first div or section
\* in document order whose text has more than 500 and fewer than 20000
\* characters; (3) if there is none, the body when its text has more than 100
\* characters; otherwise extract fails; a returned description is not empty.
C14_Soup == Decompose(resp.args.page.nodes)
C14_Text(e) == get_text(e, <<Nl>>)
C14_Qualifies(k) ==
  /\ select_one(DescriptionSelectors[k], C14_Soup) # <<>>
  /\ TextLen(C14_Text(select_one(DescriptionSelectors[k], C14_Soup)[1])) > 100
C14_Blocks == SelectSeq(Elements(C14_Soup), LAMBDA e : e.tag \in {"div", "section"})
C14_InRange(i) ==
  /\ TextLen(C14_Text(C14_Blocks[i])) > 500
  /\ TextLen(C14_Text(C14_Blocks[i])) < 20000
C14_Tier1 == \E k \in 1..Len(DescriptionSelectors) : C14_Qualifies(k)
C14_Tier2 == \E i \in 1..Len(C14_Blocks) : C14_InRange(i)
C14_Tier3 ==
  /\ select_one(Tag("body"), C14_Soup) # <<>>
  /\ TextLen(C14_Text(select_one(Tag("body"), C14_Soup)[1])) > 100
C14_Returns(text) ==
  /\ resp.body.ok
  /\ resp.body.job_description = _clean_text(text)
  /\ resp.body.job_description # <<>>
C14_Fetched == resp.op = "job_extract" /\ resp.args.page.error = "none"
C14_ThreeTiers ==
  C14_Fetched =>
    IF C14_Tier1
    THEN \E k \in 1..Len(DescriptionSelectors) :
            /\ C14_Qualifies(k)
            /\ \A j \in 1..(k - 1) : ~C14_Qualifies(j)
            /\ C14_Returns(C14_Text(select_one(DescriptionSelectors[k], C14_Soup)[1]))
    ELSE IF C14_Tier2
    THEN \E i \in 1..Len(C14_Blocks) :
            /\ C14_InRange(i)
            /\ \A j \in 1..(i - 1) : ~C14_InRange(j)
            /\ C14_Returns(C14_Text(C14_Blocks[i]))
    ELSE IF C14_Tier3
    THEN C14_Returns(C14_Text(select_one(Tag("body"), C14_Soup)[1]))
    ELSE /\ ~resp.body.ok
         /\ resp.body.error.msg[1] = "Failed to extract job description: "
C14_Witness ==
  /\ C14_Fetched
  /\ ~C14_Tier1 /\ C14_Tier2
  /\ Len(C14_Blocks) = 2 /\ ~C14_InRange(1)
  /\ resp.body.ok /\ resp.body.job_description = <<Run("E", 600)>>
C14_BodyWitness ==
  /\ C14_Fetched /\ ~C14_Tier1 /\ ~C14_Tier2 /\ C14_Tier3 /\ resp.body.ok
C14_ExhaustedWitness ==
  /\ C14_Fetched /\ ~C14_Tier1 /\ ~C14_Tier2 /\ ~C14_Tier3 /\ ~resp.body.ok
  /\ Len(Elements(C14_Soup)) > 2

\* C15: the title and the company JobExtractor.extract returns are the text
\* of the first selector, in list order, whose first match has non-empty text,
\* and exactly the placeholder when no selector has one; neither is empty.
C15_Has(selectors, k) ==
  /\ select_one(selectors[k], C14_Soup) # <<>>
  /\ get_text(select_one(selectors[k], C14_Soup)[1], <<>>) # <<>>
C15_FirstOrPlaceholder(value, selectors, placeholder) ==
  /\ value # <<>>
  /\ IF \E k \in 1..Len(selectors) : C15_Has(selectors, k)
     THEN \E k \in 1..Len(selectors) :
             /\ C15_Has(selectors, k)
             /\ \A j \in 1..(k - 1) : ~C15_Has(selectors, j)
             /\ value = get_text(select_one(selectors[k], C14_Soup)[1], <<>>)
     ELSE value = placeholder
C15_Extracted == resp.op = "job_extract" /\ resp.body.ok
C15_TitleAndCompany ==
  C15_Extracted =>
    /\ C15_FirstOrPlaceholder(resp.body.job_title, TitleSelectors,
                              <<Run("Job Title Not Found", 19)>>)
    /\ C15_FirstOrPlaceholder(resp.body.company_name, CompanySelectors,
                              <<Run("Company Not Found", 17)>>)
\* C15 for the company alone, and for the title of a page on which a selector
\* has non-empty text or that has no h1 element.
C15_CompanyAndMatchedTitle ==
  C15_Extracted =>
    /\ C15_FirstOrPlaceholder(resp.body.company_name, CompanySelectors,
                              <<Run("Company Not Found", 17)>>)
    /\ ((\E k \in 1..Len(TitleSelectors) : C15_Has(TitleSelectors, k))
         \/ select_one(Tag("h1"), C14_Soup) = <<>>)
        => C15_FirstOrPlaceholder(resp.body.job_title, TitleSelectors,
                                  <<Run("Job Title Not Found", 19)>>)
C15_EmptyTitleWitness ==
  C15_Extracted /\ resp.body.job_title = <<>>

\* C17: a successful analyze_job request has downloaded the resume, then sent
\* one prompt holding the extracted text, then stored exactly one new job
\* application holding the validated analysis, then answered with the stored
\* id and that analysis; the new row belongs to the requester, has status
\* "analyzed" and the request's company_name, job_title, job_description,
\* resume_drive_link and user_notes; no other row and no note changes.
C17_Succeeds == resp'.op = "analyze_job" /\ resp'.code = 200
C17_Ordered ==
  LET request == resp'.args.request
      env == resp'.args.env
      x == _extract_text_from_pdf(env.doc)
  IN /\ Len(resp'.io.requests) >= 1
     /\ Len(resp'.io.outbound) = 1
     /\ resp'.io.outbound[1].resume_text = x.text
     /\ resp'.io.outbound[1].job_description = request.job_description
     /\ resp'.io.constructed
     /\ resp'.body.analysis = AIAnalysisResult(json_loads(Strip(env.ai.text)).value).model
C17_Persisted ==
  LET request == resp'.args.request
  IN \E id \in DOMAIN jobs' :
        /\ id \notin DOMAIN jobs
        /\ DOMAIN jobs' = DOMAIN jobs \cup {id}
        /\ \A i \in DOMAIN jobs : jobs'[i] = jobs[i]
        /\ notes' = notes
        /\ jobs'[id].id = id
        /\ jobs'[id].user_id = resp'.user
        /\ jobs'[id].status = "analyzed"
        /\ jobs'[id].ai_analysis = resp'.body.analysis
        /\ jobs'[id].company_name = request.company_name
        /\ jobs'[id].job_title = request.job_title
        /\ jobs'[id].job_description = request.job_description
        /\ jobs'[id].resume_drive_link = request.resume_drive_link
        /\ jobs'[id].user_notes = request.user_notes
        /\ resp'.body.job_id = id
        /\ resp'.body.company_name = request.company_name
        /\ resp'.body.job_title = request.job_title
C17_SuccessPersistsOne == [][C17_Succeeds => (C17_Ordered /\ C17_Persisted)]_vars
C17_Witness ==
  /\ resp.op = "analyze_job" /\ resp.code = 200
  /\ Cardinality(JobIds) = 2
  /\ resp.body.job_id = 2
  /\ jobs[2].user_id = 2 /\ jobs[1].user_id = 1
  /\ jobs[2].user_notes = None /\ jobs[1].user_notes = Notes1

\* C18: _download_pdf sends a second request, the first with the confirm
\* token appended, exactly when the first was answered without error by an
\* HTML page that is not a PDF and holds a confirm token; it never sends more
\* than two, and a failed first or second request fails the call.
C18_Downloading ==
  /\ resp.op = "extract"
  /\ _get_download_url(resp.args.drive_link).ok
C18_ConfirmPage(r1) ==
  /\ r1.error = "none"
  /\ r1.content_type = "text/html; charset=utf-8"
  /\ r1.text = "<a href='/uc?export=download&confirm=t0k3n'>"
C18_Requests ==
  LET env == resp.args.env
      sent == resp.body.requests
  IN /\ Len(sent) \in {1, 2}
     /\ sent[1].confirm = None
     /\ Len(sent) = 2 <=> C18_ConfirmPage(env.r1)
     /\ Len(sent) = 2 =>
           /\ sent[2].file_id = sent[1].file_id
           /\ sent[2].confirm = "t0k3n"
     /\ env.r1.error # "none" => ~resp.body.ok
     /\ (Len(sent) = 2 /\ env.r2.error # "none") => ~resp.body.ok
C18_ConfirmRetry == C18_Downloading => C18_Requests
C18_Witness ==
  /\ C18_Downloading
  /\ Len(resp.body.requests) = 2
  /\ resp.args.env.r2.error = "none"
  /\ resp.body.ok
C18_NoRetryWitness ==
  /\ C18_Downloading
  /\ resp.args.env.r1.error = "HTTPError"
  /\ resp.args.env.r1.text = "<a href='/uc?export=download&confirm=t0k3n'>"
  /\ Len(resp.body.requests) = 1

\* C19: the note handlers take no requester and look only at the job id:
\* create_note adds exactly one note with the given job id and content and
\* answers 201 when a job application with that id exists, whoever owns it,
\* and answers 404 and changes nothing when none does; get_job_notes answers
\* with exactly the notes of that job and their number, or 404; delete_note
\* removes exactly the note with the given id, or answers 404 and changes
\* nothing.
C19_Unchanged == jobs' = jobs /\ notes' = notes
C19_CreateNote ==
  resp'.op = "create_note" =>
    /\ resp'.user = NoUser
    /\ IF resp'.args.job_id \in DOMAIN jobs
       THEN /\ resp'.code = 201
            /\ jobs' = jobs
            /\ \E n \in notes' :
                  /\ n \notin notes
                  /\ notes' = notes \cup {n}
                  /\ n.job_id = resp'.args.job_id
                  /\ n.content = resp'.args.content
                  /\ \A m \in notes : m.id # n.id
                  /\ resp'.body = n
       ELSE resp'.code = 404 /\ C19_Unchanged
C19_GetJobNotes ==
  resp'.op = "get_job_notes" =>
    /\ resp'.user = NoUser
    /\ C19_Unchanged
    /\ IF resp'.args.job_id \in DOMAIN jobs
       THEN /\ resp'.code = 200
            /\ {resp'.body.notes[k] : k \in 1..Len(resp'.body.notes)}
                 = {n \in notes : n.job_id = resp'.args.job_id}
            /\ Len(resp'.body.notes)
                 = Cardinality({n \in notes : n.job_id = resp'.args.job_id})
            /\ resp'.body.total = Len(resp'.body.notes)
       ELSE resp'.code = 404
C19_DeleteNote ==
  resp'.op = "delete_note" =>
    /\ resp'.user = NoUser
    /\ jobs' = jobs
    /\ IF \E n \in notes : n.id = resp'.args.note_id
       THEN /\ resp'.code = 200
            /\ notes' = {n \in notes : n.id # resp'.args.note_id}
            /\ Cardinality(notes') = Cardinality(notes) - 1
       ELSE resp'.code = 404 /\ notes' = notes
C19_NotesByJobId == [][C19_CreateNote /\ C19_GetJobNotes /\ C19_DeleteNote]_vars
C19_Witness ==
  /\ resp.op = "get_job_notes" /\ resp.code = 200
  /\ resp.body.total = 1
  /\ Cardinality(notes) = 2
  /\ \E i \in JobIds : jobs[i].user_id = 2 /\ i = resp.args.job_id
C19_MissingJobWitness ==
  /\ resp.op = "create_note" /\ resp.code = 404 /\ jobs # <<>>

\* C20: an analyze_job request that does not answer 200, whichever stage
\* failed, leaves the job applications and the notes as they were.
C20_Fails == resp'.op = "analyze_job" /\ resp'.code # 200
C20_FailurePersistsNothing == [][C20_Fails => (jobs' = jobs /\ notes' = notes)]_vars

\* C20 for the stages up to and including the commit: a failure of the
\* download, the text extraction, the analysis call, the validation of its
\* answer or of db.commit() leaves job applications and notes as they were.
C20_FailsByCommit == C20_Fails /\ resp'.args.env.db # "refresh"
C20_FailureByCommitPersistsNothing ==
  [][C20_FailsByCommit => (jobs' = jobs /\ notes' = notes)]_vars
C20_RowAfterFailureWitness ==
  /\ resp.op = "analyze_job" /\ resp.code = 500
  /\ resp.args.env.db = "refresh"
  /\ Cardinality(JobIds) = 1
C20_CommitFailureWitness ==
  /\ resp.op = "analyze_job" /\ resp.code = 500
  /\ resp.args.env.db = "commit"
  /\ jobs = <<>> /\ nextJobId = 2

\* C21: however create_note, delete_note, delete_job and analyze_job requests
\* interleave at their database statements, every stored note refers to a
\* stored job application; a create_note that found its job application and
\* commits after a delete_job of that job application has committed stores no
\* note.
C21_NoOrphanNote == \A n \in notes : n.job_id \in DOMAIN jobs
C21_LostRace(p) ==
  /\ At(p, "create_note", "commit")
  /\ inflight[p].args.job_id \notin DOMAIN jobs
  /\ inflight'[p] # inflight[p]
C21_NoNoteForDeletedJob ==
  \A p \in Procs : C21_LostRace(p) => (notes' = notes /\ inflight'[p] = Idle /\ resp'.code = 500)
C21_NotesReferToJobs ==
  /\ []C21_NoOrphanNote
  /\ [][C21_NoNoteForDeletedJob]_vars
C21_Witness ==
  /\ resp.op = "create_note" /\ resp.code = 500 /\ resp.body = "IntegrityError"
  /\ resp.args.job_id \notin DOMAIN jobs
C21_CascadeWitness ==
  /\ resp.op = "delete_job" /\ resp.code = 200 /\ resp.io.cascaded # {}
  /\ \E p \in Procs : At(p, "create_note", "refresh") /\ inflight[p].note \notin notes

\* C22: no two stored users have the same email; a register request whose
\* email is stored when it is answered gets an error and stores no user, also
\* when it passed the existence check before the other registration
\* committed; a request answered 201 has stored exactly one user.
C22_UniqueEmails == \A u \in users : \A v \in users : u.email = v.email => u = v
C22_Taken(email) == \E u \in users : u.email = EmailStr(email)
C22_Answers ==
  /\ resp'.op = "register"
  /\ \/ inflight' = inflight /\ resp' # resp
     \/ \E p \in Procs : At(p, "register", "commit") /\ inflight'[p] = Idle
C22_Refused ==
  (C22_Answers /\ C22_Taken(resp'.args.email))
    => (resp'.code \in {400, 422, 500} /\ users' = users)
C22_LostRace ==
  \A p \in Procs :
    (At(p, "register", "commit") /\ inflight'[p] = Idle /\ C22_Taken(inflight[p].args.email))
      => (resp'.code = 500 /\ users' = users)
C22_Created ==
  (C22_Answers /\ resp'.code = 201)
    => /\ ~C22_Taken(resp'.args.email)
       /\ \E u \in users' :
            /\ u \notin users
            /\ users' = users \cup {u}
            /\ u.email = EmailStr(resp'.args.email)
            /\ resp'.body.user.id = u.id
C22_RegisterKeepsEmailsUnique ==
  /\ []C22_UniqueEmails
  /\ [][C22_Refused /\ C22_LostRace /\ C22_Created]_vars
C22_Witness ==
  /\ resp.op = "register" /\ resp.code = 500
  /\ Cardinality({u \in users : u.email = EmailStr(resp.args.email)}) = 1
C22_RegisteredWitness ==
  /\ resp.op = "register" /\ resp.code = 400
  /\ resp.args.email.domain = "EXAMPLE.COM"
  /\ Cardinality(users) = 1

\* C23: every stored job application has the id of one stored user as its
\* user_id, the one of the user whose analyze_job request created it, and no
\* request changes it; its ai_analysis has all six fields of AIAnalysisResult
\* with their types and an integer match_score from 0 to 100 (analyze_job is
\* the only writer, so it is never null), whatever an update_job body carries.
C23_Owner(row) == {u \in users : u.id = row.user_id}
C23_Complete(a) ==
  /\ DOMAIN a = ResultFields
  /\ \A k \in StrFields : IsStr(a[k])
  /\ \A k \in ListFields : IsListOfStr(a[k])
  /\ a["match_score"].kind = "int"
  /\ a["match_score"].v \in 0..100
C23_Rows ==
  \A i \in DOMAIN jobs :
    /\ jobs[i].id = i
    /\ Cardinality(C23_Owner(jobs[i])) = 1
    /\ C23_Complete(jobs[i].ai_analysis)
C23_OwnerKept ==
  \A i \in DOMAIN jobs \cap DOMAIN jobs' : jobs'[i].user_id = jobs[i].user_id
C23_OwnerSet ==
  \A i \in DOMAIN jobs' \ DOMAIN jobs :
    resp'.op = "analyze_job" /\ jobs'[i].user_id = resp'.user
C23_AnalysisKept ==
  \A i \in DOMAIN jobs \cap DOMAIN jobs' : jobs'[i].ai_analysis = jobs[i].ai_analysis
C23_JobsWellFormed ==
  /\ []C23_Rows
  /\ [][C23_OwnerKept /\ C23_OwnerSet /\ C23_AnalysisKept]_vars
C23_Witness ==
  /\ resp.op = "update_job" /\ resp.code = 200
  /\ resp.body.job_title = "SRE"
  /\ resp.body.user_id = 1
  /\ resp.body.ai_analysis["match_score"] = JInt(85)
  /\ Cardinality(users) = 2
C23_CoercedWitness ==
  /\ resp.op = "analyze_job" /\ resp.code = 200
  /\ resp.args.env.ai.text[1].v.fields["match_score"] = JStr("85")
  /\ jobs[resp.body.job_id].ai_analysis["match_score"] = JInt(85)

====
